---- MODULE Spec2Model ----
(***************************************************************************)
(* A model of the mp4box crate: the box header reader and the tree walk    *)
(* (src/src/parser.rs, src/src/api.rs), the two box classification tables  *)
(* (src/src/parser.rs, src/src/known_boxes.rs) and the sample-table        *)
(* reconstruction (src/src/samples.rs), the decoder registry               *)
(* (src/src/registry.rs) and the build of the returned boxes               *)
(* (src/src/api.rs).                                                       *)
(*                                                                         *)
(* Unsigned 64-bit values.  TLC's integers are 32 bits wide, so a u64 is   *)
(* written as an integer v of small magnitude that stands for v mod 2^64:  *)
(* v >= 0 is the value v, and v < 0 is the value 2^64 + v (so -8 is        *)
(* 0xFFFF_FFFF_FFFF_FFF8).  On these representatives addition modulo 2^64  *)
(* is integer addition, and the unsigned order puts every negative         *)
(* representative above every non-negative one.                            *)
(*                                                                         *)
(* The byte source.  The stream is an untrusted file of flen bytes; the    *)
(* values a header read returns are drawn from small sets at the first     *)
(* read of a word and are the same at every later read of it.  The payload *)
(* bytes the decoders read are drawn once for the build (lead).            *)
(***************************************************************************)
EXTENDS Integers, Sequences, FiniteSets, TLC

\* ------------------------------------------------------------------ bounds

\* The length of the file in bytes is MaxFileLen or MaxFileLen - 8.
MaxFileLen == 32
\* The tree walk reads at most MaxBoxes box headers in one run.
MaxBoxes == 3

\* ------------------------------------------------------------- u64 values

\* a < b as unsigned 64-bit values
U64Lt(a, b) == IF (a < 0) = (b < 0) THEN a < b ELSE b < 0

U64Le(a, b) == a = b \/ U64Lt(a, b)

\* a + b is 2^64 or more
U64AddOverflows(a, b) ==
    \/ a < 0 /\ b < 0
    \/ a < 0 /\ b >= 0 /\ a + b >= 0
    \/ a >= 0 /\ b < 0 /\ a + b >= 0

\* u64::saturating_sub
saturating_sub(a, b) == IF U64Lt(a, b) THEN 0 ELSE a - b

\* Option<T>: None is the empty sequence, Some(x) the one-element sequence.
None == <<>>
Some(x) == <<x>>
is_some(o) == o # <<>>
unwrap(o) == o[1]

\* ------------------------------------------------------------ input sets

\* The values the 32-bit size field of a header takes.
Size32Set == {0, 1, 7, 8, 12, 16, 24}
\* The values the 64-bit large size field takes (-8 is 2^64 - 8).
LargeSet == {0, 15, 16, 24, -8}
\* The type codes a header takes: "zzzz" is a code no table knows.
TypSet == {"moov", "stsd", "mdat", "mvhd", "ftyp", "uuid", "zzzz"}

\* --------------------------------------------------- classification tables

\* parser.rs is_container
is_container(typ) ==
    typ \in {"moov", "trak", "mdia", "minf", "stbl", "edts",
             "udta", "meta", "moof", "traf", "mfra", "sinf",
             "ipro", "schi", "dinf", "iprp", "iloc",
             "tref", "meco", "mere", "iref", "pitm",
             "mvex", "stsd"}

\* parser.rs is_full_box
is_full_box(typ) ==
    /\ typ \in {"mvhd", "tkhd", "mdhd", "hdlr", "vmhd", "smhd",
                "nmhd", "dref", "stsd", "stts", "ctts", "stsc",
                "stsz", "stz2", "stco", "co64", "stss", "stsh",
                "elst", "url ", "urn ", "tfhd", "trun", "mfhd",
                "tfdt", "mehd", "trex", "pssh", "sidx", "mdat"}
    /\ typ # "stsd"

\* The codes KnownBox::from maps to a variant of their own; a variant is
\* written as its code, and every other code becomes "Unknown".
KnownCodes ==
    {"ftyp", "moov", "mdat", "free", "skip", "wide", "meta", "pssh", "sidx",
     "ssix", "prft", "styp", "emsg", "mfra", "mfro",
     "mvhd", "trak", "mvex", "udta",
     "tkhd", "edts", "mdia", "tref", "iprp", "meco",
     "elst", "mdhd", "hdlr", "minf",
     "vmhd", "smhd", "hmhd", "nmhd", "dinf", "stbl", "dref",
     "stsd", "stts", "ctts", "stsc", "stsz", "stz2", "stco", "co64", "stss",
     "stsh", "padb", "stdp", "sdtp", "sgpd", "sbgp", "subs",
     "mehd", "trex", "moof", "mfhd", "traf", "tfhd", "tfdt", "trun", "tfra",
     "iloc", "iinf", "infe", "iref", "ipco", "ipma", "ipci", "ispe", "pixi",
     "auxC", "clap", "colr", "hvcC", "avcC", "pitm",
     "sinf", "schm", "schi", "tenc", "saio", "saiz", "senc", "frma",
     "avc1", "avc2", "avc3", "avc4", "hev1", "hvc1", "vvc1", "mp4v", "vp08",
     "vp09", "av01",
     "mp4a", "ac-3", "ec-3", "opus", "samr", "sawb", "alac", "flac",
     "pasp", "cslg", "cprt", "gama", "fiel", "tapt", "uuid"}

KnownBox_from(typ) == IF typ \in KnownCodes THEN typ ELSE "Unknown"

\* KnownBox::is_container
KnownBox_is_container(kb) ==
    kb \in {"moov", "trak", "mdia", "minf", "stbl", "edts", "udta", "meta",
            "moof", "mvex", "mfra", "meco", "traf", "sinf", "iprp", "iref",
            "ipco", "ipma"}

\* KnownBox::is_full_box
KnownBox_is_full_box(kb) ==
    kb \in {"mvhd", "tkhd", "mdhd", "hdlr", "vmhd", "smhd", "nmhd", "dref",
            "stts", "ctts", "stsc", "stsz", "stz2", "stco", "co64", "stss",
            "stsh", "padb", "stdp", "stsd", "sdtp", "sgpd", "sbgp", "subs",
            "elst", "sidx", "mehd", "trex", "mfhd", "tfhd", "tfdt", "trun",
            "tfra", "iloc", "iinf", "infe", "pitm", "pssh", "schi", "saio",
            "saiz"}

\* The kind parse_children gives a box (parser.rs, "Decide kind").
parse_children_kind(typ) ==
    IF is_container(typ) THEN "Container"
    ELSE IF is_full_box(typ) THEN "FullBox"
    ELSE IF typ = "uuid" THEN "Unknown"
    ELSE "Leaf"

\* The kind the top-level loop of get_boxes gives a box.
get_boxes_kind(typ) ==
    IF KnownBox_is_container(KnownBox_from(typ)) THEN "Container"
    ELSE IF KnownBox_is_full_box(KnownBox_from(typ)) THEN "FullBox"
    ELSE IF typ = "uuid" THEN "Unknown"
    ELSE "Leaf"

\* ----------------------------------------------------------- header reader

\* read_exact of n bytes at stream position p succeeds: the file holds them.
CanRead(len, p, n) == p >= 0 /\ p + n <= len

\* A header width that forgets the uuid after a large size.
header_size_large_only(size32, typ) ==
    CASE size32 = 1 -> 8 + 8
      [] size32 # 1 /\ typ = "uuid" -> 8 + 16
      [] OTHER -> 8

\* parser.rs read_box_header, the match that computes header_size
header_size(size32, typ) ==
    CASE size32 = 1 /\ typ = "uuid" -> 8 + 8 + 16
      [] size32 = 1 /\ typ # "uuid" -> 8 + 8
      [] size32 # 1 /\ typ = "uuid" -> 8 + 16
      [] OTHER -> 8

NoHdr == [size |-> 0, typ |-> "", uuid |-> "None", header_size |-> 0, start |-> 0]

\* A size check against the fixed 8-byte prefix instead of the header width.
invalid_size_prefix_only(size, hsz) == size # 0 /\ U64Lt(size, 8)

\* parser.rs read_box_header, the size check
invalid_size(size, hsz) == size # 0 /\ U64Lt(size, hsz)

\* parser.rs read_box_header on a stream of len bytes positioned at start,
\* where the file holds size32, typ and (after a size32 of 1) large there.
\* err is "none", "io" (a read met the end of the file) or "invalid"
\* (ParseError::InvalidSize) and hdr the header returned with "none"; pos is
\* the stream position the successful reads leave, nfields the number of
\* header fields read (size, type, large size, uuid), and size and width
\* the declared size and the header width once they are computed.
read_box_header(len, start, size32, typ, large) ==
    LET p1 == start + 4
        p2 == p1 + 4
        p3 == IF size32 = 1 THEN p2 + 8 ELSE p2
        p4 == IF typ = "uuid" THEN p3 + 16 ELSE p3
        size == IF size32 = 1 THEN large ELSE size32
        hsz == header_size(size32, typ)
        Err(e, p, n) == [err |-> e, hdr |-> NoHdr, pos |-> p, nfields |-> n,
                         size |-> IF n = 4 THEN size ELSE 0,
                         width |-> IF n = 4 THEN hsz ELSE 0]
    IN  IF ~CanRead(len, start, 4) THEN Err("io", start, 0)
        ELSE IF ~CanRead(len, p1, 4) THEN Err("io", p1, 1)
        ELSE IF size32 = 1 /\ ~CanRead(len, p2, 8) THEN Err("io", p2, 2)
        ELSE IF typ = "uuid" /\ ~CanRead(len, p3, 16) THEN Err("io", p3, 3)
        ELSE IF invalid_size(size, hsz) THEN Err("invalid", p4, 4)
        ELSE [err |-> "none",
              hdr |-> [size |-> size, typ |-> typ,
                       uuid |-> IF typ = "uuid" THEN "Some" ELSE "None",
                       header_size |-> hsz, start |-> start],
              pos |-> p4, nfields |-> 4, size |-> size, width |-> hsz]

\* ------------------------------------------------------- the file's words

\* The file as the header reader sees it: 4-byte words at the offsets 0, 4,
\* ..., each with its value as a big-endian number (n, with 2^32 - k written
\* -k) and as a type code (t); "zzzz" is the code of every word that spells
\* no type a table knows.  A word is fixed by the first header field read
\* from it and read the same ever after.
WordOffsets == {4 * i : i \in 0..(MaxFileLen \div 4)}
Unread == [n |-> 0, t |-> ""]
NumWord(k) == [n |-> k, t |-> "zzzz"]
TypWord(typ) == [n |-> 1073741824, t |-> typ]
NoWords == [o \in WordOffsets |-> Unread]

\* The two words of the large size field.
LargeHi(large) == IF large < 0 THEN -1 ELSE 0
LargeLo(large) == large

\* The header fields read_box_header reads at start: the words they lie in,
\* the value read and the reading (as a number or as a type code).  nfields
\* is the number of fields the reads reached before the end of the file.
FieldsRead(start, size32, typ, large, nfields) ==
    (IF nfields >= 1 THEN {[at |-> start, n |-> size32, t |-> ""]} ELSE {})
    \cup (IF nfields >= 2 THEN {[at |-> start + 4, n |-> 0, t |-> typ]} ELSE {})
    \cup (IF nfields >= 3 /\ size32 = 1
            THEN {[at |-> start + 8, n |-> LargeHi(large), t |-> ""],
                  [at |-> start + 12, n |-> LargeLo(large), t |-> ""]}
            ELSE {})

\* The fields agree with the words read before.
Fits(ws, fields) ==
    \A f \in fields :
        /\ f.at \in WordOffsets
        /\ \/ ws[f.at] = Unread
           \/ IF f.t = "" THEN ws[f.at].n = f.n ELSE ws[f.at].t = f.t

\* The words once the fields are read.
Written(ws, fields) ==
    [o \in WordOffsets |->
        IF ws[o] # Unread \/ ~\E f \in fields : f.at = o THEN ws[o]
        ELSE LET f == CHOOSE g \in fields : g.at = o
             IN  IF f.t = "" THEN NumWord(f.n) ELSE TypWord(f.t)]

\* ------------------------------------------------------------ the registry

\* boxes.rs BoxKey as api.rs payload_region forms it: the uuid of a uuid box
\* (the model's files hold one uuid value), the type code of any other
BoxKey_of(typ) == IF typ = "uuid" THEN "Uuid" ELSE typ
BoxKeySet == {BoxKey_of(typ) : typ \in TypSet}

\* The decoders: three of registry.rs and the one of tests/registry_ftyp.rs.
DecoderSet == {"FtypDecoder", "MvhdDecoder", "StsdDecoder", "DummyDecoder"}
NoDecoder == "NoDecoder"

\* The first payload byte (mvhd: the version) or word (stsd: entry_count) of
\* the boxes of a file.
LeadSet == {0, 1}

\* What a decoder returns on a reader that yields avail bytes, and the bytes
\* it takes from the reader.
DecodeOk(kind, text, taken) ==
    [ok |-> TRUE, kind |-> kind, text |-> text, taken |-> taken]
DecodeErr(taken) ==
    [ok |-> FALSE, kind |-> "Err", text |-> "failed to fill whole buffer",
     taken |-> taken]

\* BoxDecoder::decode of the four decoders
decoder_decode(dec, avail, lead) ==
    CASE dec = "FtypDecoder" ->
            IF avail < 8 THEN DecodeOk("Text", "ftyp: payload too short", avail)
            ELSE DecodeOk("Text", "major= minor= compatible=", avail)
      [] dec = "MvhdDecoder" ->
            IF avail < (IF lead = 1 THEN 32 ELSE 20) THEN DecodeErr(avail)
            ELSE DecodeOk("Text", "timescale= duration=", avail)
      [] dec = "StsdDecoder" ->
            IF avail < 4 THEN DecodeErr(avail)
            ELSE IF lead = 0 THEN DecodeOk("Text", "entry_count=0", 4)
            ELSE IF avail < 12 THEN DecodeErr(avail)
            ELSE DecodeOk("Structured", "SampleDescription", 12)
      [] OTHER -> DecodeOk("Bytes", "bytes", avail)

\* registry.rs Registry::new
Registry_new == [k \in BoxKeySet |-> NoDecoder]

\* A registration that keeps the decoder a key already has.
with_decoder_keep_first(reg, key, dec) ==
    IF reg[key] = NoDecoder THEN [reg EXCEPT ![key] = dec] ELSE reg

\* registry.rs Registry::with_decoder (HashMap::insert)
with_decoder(reg, key, dec) == [reg EXCEPT ![key] = dec]

\* A lookup that answers a missing decoder with a decode error.
Registry_decode_missing_is_error(reg, key, avail, lead) ==
    IF reg[key] = NoDecoder THEN Some(DecodeErr(0))
    ELSE Some(decoder_decode(reg[key], avail, lead))

\* registry.rs Registry::decode: None without a decoder for the key
Registry_decode(reg, key, avail, lead) ==
    IF reg[key] = NoDecoder THEN None
    ELSE Some(decoder_decode(reg[key], avail, lead))

\* registry.rs default_registry, its entries for the model's type codes
default_registry ==
    with_decoder(with_decoder(with_decoder(Registry_new,
        "ftyp", "FtypDecoder"), "mvhd", "MvhdDecoder"), "stsd", "StsdDecoder")

\* api.rs decode_value, the match on what Registry::decode returned: the
\* decoded text (in parts) and the structured data of the box
decoded_of(res) ==
    IF ~is_some(res) THEN [decoded |-> None, structured_data |-> None]
    ELSE LET v == unwrap(res) IN
         CASE ~v.ok ->
                [decoded |-> Some(<<"[decode error: ", v.text, "]">>),
                 structured_data |-> None]
           [] v.ok /\ v.kind = "Text" ->
                [decoded |-> Some(<<v.text>>), structured_data |-> None]
           [] v.ok /\ v.kind = "Bytes" ->
                [decoded |-> Some(<<ToString(v.taken), " bytes">>),
                 structured_data |-> None]
           [] OTHER ->
                [decoded |-> Some(<<"structured: ", v.text>>),
                 structured_data |-> Some(v.text)]

\* ------------------------------------------------------ building the boxes

\* api.rs payload_region: the key, offset and length of the payload a
\* decoder is given, if any
payload_region(b) ==
    LET key == BoxKey_of(b.hdr.typ) IN
    CASE b.kind = "FullBox" ->
           Some([key |-> key, off |-> b.data_offset, len |-> b.data_len])
      [] b.kind \in {"Leaf", "Unknown"} ->
           IF b.hdr.size = 0 THEN None
           ELSE LET off == b.hdr.start + b.hdr.header_size
                    len == saturating_sub(b.hdr.size, b.hdr.header_size)
                IN  IF len = 0 THEN None
                    ELSE Some([key |-> key, off |-> off, len |-> len])
      [] OTHER -> None

\* api.rs payload_geometry
payload_geometry(b) ==
    CASE b.kind = "FullBox" ->
           Some([off |-> b.data_offset, len |-> b.data_len])
      [] b.kind \in {"Leaf", "Unknown"} ->
           IF b.hdr.size = 0 THEN None
           ELSE LET off == b.hdr.start + b.hdr.header_size
                    len == saturating_sub(b.hdr.size, b.hdr.header_size)
                IN  IF len = 0 THEN None
                    ELSE Some([off |-> off, len |-> len])
      [] OTHER -> None

\* The bytes a reader of a file_len-byte stream that is sought to off and
\* limited to len bytes (r.take(len)) can yield.
take_avail(file_len, off, len) ==
    IF ~U64Lt(off, file_len) THEN 0
    ELSE IF U64Lt(len, file_len - off) THEN len ELSE file_len - off

NoValue(p) ==
    [decoded |-> None, structured_data |-> None, reader |-> None, pos |-> p]

\* api.rs decode_value with the stream at p: the decoded text and structured
\* data, the stream position it leaves, and (history) the reader the decoder
\* was handed: sought to off and limited to len bytes.
decode_value(file_len, b, registry, ld, p) ==
    LET region == payload_region(b) IN
    IF ~is_some(region) THEN NoValue(p)
    ELSE LET key == unwrap(region).key
             off == unwrap(region).off
             len == unwrap(region).len
             avail == take_avail(file_len, off, len)
             res == Registry_decode(registry, key, avail, ld)
         IN  IF len = 0 THEN NoValue(p)
             ELSE [decoded |-> decoded_of(res).decoded,
                   structured_data |-> decoded_of(res).structured_data,
                   reader |-> IF is_some(res)
                                THEN Some([off |-> off, len |-> len,
                                           avail |-> avail])
                                ELSE None,
                   pos |-> IF is_some(res) THEN off + unwrap(res).taken
                           ELSE off]

kind_str(kind) ==
    CASE kind = "FullBox" -> "full"
      [] kind = "Leaf" -> "leaf"
      [] kind = "Unknown" -> "unknown"
      [] OTHER -> "container"

RECURSIVE build_box(_, _, _, _, _, _)
RECURSIVE build_boxes(_, _, _, _, _, _)

\* A box builder that decodes whatever the decode flag says.
build_box_decoding_always(b, file_len, dec, registry, ld, p) ==
    LET geometry == payload_geometry(b)
        kids == IF b.kind = "Container"
                  THEN build_boxes(b.kids, file_len, dec, registry, ld, p)
                  ELSE [boxes |-> <<>>, pos |-> p]
        value == decode_value(file_len, b, registry, ld, kids.pos)
    IN  [box |-> [offset |-> b.hdr.start,
                  size |-> b.hdr.size,
                  header_size |-> b.hdr.header_size,
                  payload_offset |-> IF is_some(geometry)
                                       THEN Some(unwrap(geometry).off) ELSE None,
                  payload_size |-> IF is_some(geometry)
                                     THEN Some(unwrap(geometry).len) ELSE None,
                  typ |-> b.hdr.typ,
                  kind |-> kind_str(b.kind),
                  decoded |-> value.decoded,
                  structured_data |-> value.structured_data,
                  children |-> IF b.kind = "Container" THEN Some(kids.boxes)
                               ELSE None,
                  reader |-> value.reader],
         pos |-> value.pos]

\* api.rs build_box with the stream at p: the Box (without the fields uuid,
\* version, flags and full_name, which no step reads) and the stream position
\* it leaves.  The children are built before the box itself is decoded.
build_box(b, file_len, dec, registry, ld, p) ==
    LET geometry == payload_geometry(b)
        kids == IF b.kind = "Container"
                  THEN build_boxes(b.kids, file_len, dec, registry, ld, p)
                  ELSE [boxes |-> <<>>, pos |-> p]
        value == IF dec THEN decode_value(file_len, b, registry, ld, kids.pos)
                 ELSE NoValue(kids.pos)
    IN  [box |-> [offset |-> b.hdr.start,
                  size |-> b.hdr.size,
                  header_size |-> b.hdr.header_size,
                  payload_offset |-> IF is_some(geometry)
                                       THEN Some(unwrap(geometry).off) ELSE None,
                  payload_size |-> IF is_some(geometry)
                                     THEN Some(unwrap(geometry).len) ELSE None,
                  typ |-> b.hdr.typ,
                  kind |-> kind_str(b.kind),
                  decoded |-> value.decoded,
                  structured_data |-> value.structured_data,
                  children |-> IF b.kind = "Container" THEN Some(kids.boxes)
                               ELSE None,
                  reader |-> value.reader],
         pos |-> value.pos]

\* The decoded value is the text of a failed decode.
is_decode_error(decoded) ==
    is_some(decoded) /\ unwrap(decoded)[1] = "[decode error: "

\* A list builder that gives up at the first box whose decoder failed.
RECURSIVE build_boxes_stop_at_failure(_, _, _, _, _, _)
build_boxes_stop_at_failure(nodes, file_len, dec, registry, ld, p) ==
    IF nodes = <<>> THEN [boxes |-> <<>>, pos |-> p]
    ELSE LET h == build_box(Head(nodes), file_len, dec, registry, ld, p)
             t == build_boxes_stop_at_failure(Tail(nodes), file_len, dec,
                                              registry, ld, h.pos)
         IN  IF is_decode_error(h.box.decoded)
               THEN [boxes |-> <<h.box>>, pos |-> h.pos]
               ELSE [boxes |-> <<h.box>> \o t.boxes, pos |-> t.pos]

\* api.rs get_boxes / build_box: `.iter().map(|b| build_box(r, b, decode,
\* &reg)).collect()`, the boxes of a list of nodes in order
build_boxes(nodes, file_len, dec, registry, ld, p) ==
    IF nodes = <<>> THEN [boxes |-> <<>>, pos |-> p]
    ELSE LET h == build_box(Head(nodes), file_len, dec, registry, ld, p)
             t == build_boxes(Tail(nodes), file_len, dec, registry, ld, h.pos)
         IN  [boxes |-> <<h.box>> \o t.boxes, pos |-> t.pos]

\* ------------------------------------------------------------- hex_range

\* std::cmp::min on u64 values
U64Min(a, b) == IF U64Lt(a, b) THEN a ELSE b

\* A read length that takes the caller's max_len as it is.
to_read_unclamped(size, offset, max_len) == max_len

\* api.rs hex_range, `to_read`: the bytes from offset to size, at most max_len
to_read(size, offset, max_len) == U64Min(saturating_sub(size, offset), max_len)

\* util.rs read_slice on a stream of data_len bytes: the seek, the buffer of
\* len bytes and read_exact, which fails when the stream ends before len
\* bytes; the value is the number of bytes read
read_slice(data_len, offset, len) ==
    IF U64Lt(data_len, offset) \/ U64Lt(data_len - offset, len)
      THEN [ok |-> FALSE, n |-> 0]
      ELSE [ok |-> TRUE, n |-> len]

\* util.rs hex_dump: one line per 16 bytes, with the offset of its first
\* byte and the number of bytes it shows
hex_dump(n, start_offset) ==
    [i \in 1..((n + 15) \div 16) |->
        [offs |-> start_offset + (i - 1) * 16,
         n |-> IF i * 16 <= n THEN 16 ELSE n - (i - 1) * 16]]

\* api.rs hex_range on a stream of data_len bytes
hex_range(data_len, size, offset, max_len) ==
    LET n == to_read(size, offset, max_len)
        data == read_slice(data_len, offset, n)
    IN  IF n = 0 THEN [status |-> "ok", offset |-> offset, length |-> 0,
                       hex |-> <<>>, nread |-> 0]
        ELSE IF ~data.ok THEN [status |-> "err", offset |-> offset,
                               length |-> 0, hex |-> <<>>, nread |-> 0]
        ELSE [status |-> "ok", offset |-> offset, length |-> n,
              hex |-> hex_dump(data.n, offset), nread |-> data.n]

\* ------------------------------------------------- the built-in decoders

\* A payload is the sequence of its bytes.  A u32 is written in the band of
\* TLC's integers: v stands for v mod 2^32, so a value of 2^31 and more is
\* written v - 2^32, which is also the value `as i32` gives it.  A u64 or i64
\* is the pair of its high and low 32 bits.

\* A u32 read with the least significant byte first.
u32_from_le_bytes(bs) ==
    LET top == IF bs[4] >= 128 THEN bs[4] - 256 ELSE bs[4]
    IN  ((top * 256 + bs[3]) * 256 + bs[2]) * 256 + bs[1]

\* u32::from_be_bytes, read_u32::<BigEndian>
u32_from_be_bytes(bs) ==
    LET top == IF bs[1] >= 128 THEN bs[1] - 256 ELSE bs[1]
    IN  ((top * 256 + bs[2]) * 256 + bs[3]) * 256 + bs[4]

\* u64::from_be_bytes, i64::from_be_bytes, read_u64::<BigEndian>
u64_from_be_bytes(bs) ==
    [hi |-> u32_from_be_bytes(SubSeq(bs, 1, 4)),
     lo |-> u32_from_be_bytes(SubSeq(bs, 5, 8))]

\* read_u16::<BigEndian>
u16_from_be_bytes(bs) == bs[1] * 256 + bs[2]

\* i16::from_be_bytes
i16_from_be_bytes(bs) ==
    (IF bs[1] >= 128 THEN bs[1] - 256 ELSE bs[1]) * 256 + bs[2]

\* `as u64` of a u32, `as i64` of an i32, `as i32` of a u32
u32_as_u64(v) == [hi |-> 0, lo |-> v]
i32_as_i64(v) == [hi |-> IF v < 0 THEN -1 ELSE 0, lo |-> v]
u32_as_i32(v) == v

\* The n bytes of buf from the 0-based offset at
bytes_at(buf, at, n) == SubSeq(buf, at + 1, at + n)

\* String::from_utf8_lossy of bytes that are ASCII or 0xFF, as code points:
\* a byte that is not valid UTF-8 becomes U+FFFD
from_utf8_lossy(bs) == [i \in 1..Len(bs) |-> IF bs[i] < 128 THEN bs[i] ELSE 65533]

\* std::str::from_utf8(..).unwrap_or("????") of 4 such bytes
from_utf8_or_question_marks(bs) ==
    IF \A i \in 1..Len(bs) : bs[i] < 128 THEN bs ELSE <<63, 63, 63, 63>>

\* registry.rs lang_from_u16, as code points ("und" for 0)
lang_from_u16(code) ==
    IF code = 0 THEN <<117, 110, 100>>
    ELSE <<((code \div 1024) % 32) + 96, ((code \div 32) % 32) + 96,
           (code % 32) + 96>>

\* What BoxDecoder::decode returns: Ok(BoxValue::Text), whose text is
\* written as its format string and arguments, Ok(BoxValue::Structured), or
\* the error of a read past the end of the payload
Text(fmt, args) ==
    [ok |-> TRUE, kind |-> "Text", text |-> [fmt |-> fmt, args |-> args]]
Structured(variant, data) ==
    [ok |-> TRUE, kind |-> "Structured",
     text |-> [variant |-> variant, data |-> data]]
UnexpectedEof ==
    [ok |-> FALSE, kind |-> "Err", text |-> "failed to fill whole buffer"]

\* The closures read_u32, read_u64, read_i32, read_i64, read_i16 of
\* TkhdDecoder and ElstDecoder: the value, if the bytes are there, and the
\* position, which moves only then
read_u32(buf, pos) ==
    IF pos + 4 > Len(buf) THEN [v |-> None, pos |-> pos]
    ELSE [v |-> Some(u32_from_be_bytes(bytes_at(buf, pos, 4))), pos |-> pos + 4]
read_u64(buf, pos) ==
    IF pos + 8 > Len(buf) THEN [v |-> None, pos |-> pos]
    ELSE [v |-> Some(u64_from_be_bytes(bytes_at(buf, pos, 8))), pos |-> pos + 8]
read_i16(buf, pos) ==
    IF pos + 2 > Len(buf) THEN [v |-> None, pos |-> pos]
    ELSE [v |-> Some(i16_from_be_bytes(bytes_at(buf, pos, 2))), pos |-> pos + 2]
unwrap_or(o, d) == IF is_some(o) THEN unwrap(o) ELSE d

\* A list of brands that also keeps a last group of fewer than 4 bytes.
ftyp_brands_with_partial(buf) ==
    [i \in 1..((Len(buf) - 8 + 3) \div 4) |->
        from_utf8_lossy(SubSeq(buf, 8 + 4 * (i - 1) + 1,
                               IF 8 + 4 * i <= Len(buf) THEN 8 + 4 * i
                               ELSE Len(buf)))]

\* FtypDecoder: the chunks of 4 bytes of buf[8..] that are complete
ftyp_brands(buf) ==
    [i \in 1..((Len(buf) - 8) \div 4) |->
        from_utf8_lossy(bytes_at(buf, 8 + 4 * (i - 1), 4))]

\* FtypDecoder::decode
FtypDecoder_decode(buf) ==
    IF Len(buf) < 8 THEN Text("ftyp: payload too short ({} bytes)", [len |-> Len(buf)])
    ELSE Text("major={} minor={} compatible={:?}",
              [major |-> from_utf8_lossy(bytes_at(buf, 0, 4)),
               minor |-> u32_from_be_bytes(bytes_at(buf, 4, 4)),
               brands |-> ftyp_brands(buf)])

\* MvhdDecoder::decode: version and flags are read from the payload
MvhdDecoder_decode(buf) ==
    IF Len(buf) < 4 THEN UnexpectedEof
    ELSE IF buf[1] = 1
      THEN IF Len(buf) < 32 THEN UnexpectedEof
           ELSE Text("timescale={} duration={}",
                     [timescale |-> u32_from_be_bytes(bytes_at(buf, 20, 4)),
                      duration |-> u64_from_be_bytes(bytes_at(buf, 24, 8))])
      ELSE IF Len(buf) < 20 THEN UnexpectedEof
           ELSE Text("timescale={} duration={}",
                     [timescale |-> u32_from_be_bytes(bytes_at(buf, 12, 4)),
                      duration |->
                          u32_as_u64(u32_from_be_bytes(bytes_at(buf, 16, 4)))])

\* TkhdDecoder::decode from the end of the duration at pos on: two reserved
\* words, 8 bytes of layer/group/volume, the matrix, width and height (the
\* text shows them divided by 65536)
TkhdDecoder_tail(buf, pos0, track_id, duration) ==
    LET p1 == read_u32(buf, pos0).pos
        p2 == read_u32(buf, p1).pos
        short == Text("track_id={} duration={} (no width/height, short payload)",
                      [track_id |-> track_id, duration |-> duration])
    IN  IF p2 + 8 > Len(buf) THEN short
        ELSE IF p2 + 8 + 36 > Len(buf) THEN short
        ELSE IF p2 + 8 + 36 + 8 > Len(buf) THEN short
        ELSE Text("track_id={} duration={} width={} height={}",
                  [track_id |-> track_id, duration |-> duration,
                   width |-> u32_from_be_bytes(bytes_at(buf, p2 + 44, 4)),
                   height |-> u32_from_be_bytes(bytes_at(buf, p2 + 48, 4))])

\* TkhdDecoder::decode: version and flags are read from the payload
TkhdDecoder_decode(buf) ==
    IF Len(buf) < 4 THEN Text("tkhd: payload too short ({} bytes)", [len |-> Len(buf)])
    ELSE IF buf[1] = 1
      THEN LET c == read_u64(buf, 4)
               m == read_u64(buf, c.pos)
               t == read_u32(buf, m.pos)
               r == read_u32(buf, t.pos)
               d == read_u64(buf, r.pos)
           IN  IF ~is_some(c.v) \/ ~is_some(m.v)
                 THEN Text("tkhd: truncated creation/modification", <<>>)
                 ELSE TkhdDecoder_tail(buf, d.pos, unwrap_or(t.v, 0),
                                       unwrap_or(d.v, u32_as_u64(0)))
      ELSE LET c == read_u32(buf, 4)
               m == read_u32(buf, c.pos)
               t == read_u32(buf, m.pos)
               r == read_u32(buf, t.pos)
               d == read_u32(buf, r.pos)
           IN  IF ~is_some(c.v) \/ ~is_some(m.v)
                 THEN Text("tkhd: truncated creation/modification", <<>>)
                 ELSE TkhdDecoder_tail(buf, d.pos, unwrap_or(t.v, 0),
                                       u32_as_u64(unwrap_or(d.v, 0)))

\* MdhdDecoder::decode: four u32 and two u16, each read with `?`
MdhdDecoder_decode(buf, version, flags) ==
    IF Len(buf) < 20 THEN UnexpectedEof
    ELSE Structured("MediaHeader",
            [version |-> unwrap_or(version, 0),
             flags |-> unwrap_or(flags, 0),
             creation_time |-> u32_from_be_bytes(bytes_at(buf, 0, 4)),
             modification_time |-> u32_from_be_bytes(bytes_at(buf, 4, 4)),
             timescale |-> u32_from_be_bytes(bytes_at(buf, 8, 4)),
             duration |-> u32_from_be_bytes(bytes_at(buf, 12, 4)),
             language |-> lang_from_u16(u16_from_be_bytes(bytes_at(buf, 16, 2)))])

\* HdlrDecoder: the name without its trailing zero bytes
RECURSIVE strip_trailing_nulls(_)
strip_trailing_nulls(bs) ==
    IF bs # <<>> /\ bs[Len(bs)] = 0
      THEN strip_trailing_nulls(SubSeq(bs, 1, Len(bs) - 1))
      ELSE bs

\* HdlrDecoder::decode
HdlrDecoder_decode(buf, version, flags) ==
    IF Len(buf) < 20 THEN UnexpectedEof
    ELSE Structured("HandlerReference",
            [version |-> unwrap_or(version, 0),
             flags |-> unwrap_or(flags, 0),
             handler_type |-> from_utf8_or_question_marks(bytes_at(buf, 4, 4)),
             name |-> from_utf8_lossy(strip_trailing_nulls(
                          SubSeq(buf, 21, Len(buf))))])

\* SidxDecoder::decode: version and flags are read from the payload
SidxDecoder_decode(buf) ==
    IF Len(buf) < 4 THEN UnexpectedEof
    ELSE IF buf[1] = 1
      THEN IF Len(buf) < 32 THEN UnexpectedEof
           ELSE Text("timescale={} earliest_presentation_time={} first_offset={} references={}",
                     [timescale |-> u32_from_be_bytes(bytes_at(buf, 8, 4)),
                      earliest |-> u64_from_be_bytes(bytes_at(buf, 12, 8)),
                      first_offset |-> u64_from_be_bytes(bytes_at(buf, 20, 8)),
                      ref_count |-> u16_from_be_bytes(bytes_at(buf, 30, 2))])
      ELSE IF Len(buf) < 24 THEN UnexpectedEof
           ELSE Text("timescale={} earliest_presentation_time={} first_offset={} references={}",
                     [timescale |-> u32_from_be_bytes(bytes_at(buf, 8, 4)),
                      earliest |->
                          u32_as_u64(u32_from_be_bytes(bytes_at(buf, 12, 4))),
                      first_offset |->
                          u32_as_u64(u32_from_be_bytes(bytes_at(buf, 16, 4))),
                      ref_count |-> u16_from_be_bytes(bytes_at(buf, 22, 2))])

\* StsdDecoder: "avc1", "hvc1", "hev1", "vp09", "av01"
visual_codecs ==
    {<<97, 118, 99, 49>>, <<104, 118, 99, 49>>, <<104, 101, 118, 49>>,
     <<118, 112, 48, 57>>, <<97, 118, 48, 49>>}

\* StsdDecoder::decode: entry_count, then the first entry's size, codec and,
\* for a visual codec, 24 bytes and width and height
StsdDecoder_decode(buf) ==
    IF Len(buf) < 4 THEN UnexpectedEof
    ELSE LET entry_count == u32_from_be_bytes(bytes_at(buf, 0, 4)) IN
         IF entry_count = 0 THEN Text("entry_count=0", <<>>)
         ELSE IF Len(buf) < 12 THEN UnexpectedEof
         ELSE LET codec == from_utf8_or_question_marks(bytes_at(buf, 8, 4))
                  visual == codec \in visual_codecs
              IN  IF visual /\ Len(buf) < 40 THEN UnexpectedEof
                  ELSE Structured("SampleDescription",
                          [version |-> 0, flags |-> 0,
                           entry_count |-> entry_count,
                           entries |-> <<[size |-> 0, codec |-> codec,
                               data_reference_index |-> 1,
                               width |-> IF visual
                                   THEN Some(u16_from_be_bytes(bytes_at(buf, 36, 2)))
                                   ELSE None,
                               height |-> IF visual
                                   THEN Some(u16_from_be_bytes(bytes_at(buf, 38, 2)))
                                   ELSE None]>>])

\* The loop of a sample-table decoder, `for _ in 0..count`, that reads the
\* fields of one entry (width bytes) from pos with `?` at each turn: the
\* offsets of the entries read, or the error of the read that met the end
RECURSIVE read_entries(_, _, _, _, _)
read_entries(buf, pos, count, width, acc) ==
    IF count = 0 THEN [ok |-> TRUE, at |-> acc]
    ELSE IF pos + width > Len(buf) THEN [ok |-> FALSE, at |-> acc]
    ELSE read_entries(buf, pos + width, count - 1, width, Append(acc, pos))

\* SttsDecoder::decode
SttsDecoder_decode(buf, version, flags) ==
    IF Len(buf) < 4 THEN UnexpectedEof
    ELSE LET entry_count == u32_from_be_bytes(bytes_at(buf, 0, 4))
             es == read_entries(buf, 4, entry_count, 8, <<>>)
         IN  IF ~es.ok THEN UnexpectedEof
             ELSE Structured("DecodingTimeToSample",
                     [version |-> unwrap_or(version, 0),
                      flags |-> unwrap_or(flags, 0),
                      entry_count |-> entry_count,
                      entries |-> [i \in 1..Len(es.at) |->
                          [sample_count |->
                               u32_from_be_bytes(bytes_at(buf, es.at[i], 4)),
                           sample_delta |->
                               u32_from_be_bytes(bytes_at(buf, es.at[i] + 4, 4))]]])

\* StssDecoder::decode
StssDecoder_decode(buf, version, flags) ==
    IF Len(buf) < 4 THEN UnexpectedEof
    ELSE LET entry_count == u32_from_be_bytes(bytes_at(buf, 0, 4))
             es == read_entries(buf, 4, entry_count, 4, <<>>)
         IN  IF ~es.ok THEN UnexpectedEof
             ELSE Structured("SyncSample",
                     [version |-> unwrap_or(version, 0),
                      flags |-> unwrap_or(flags, 0),
                      entry_count |-> entry_count,
                      sample_numbers |-> [i \in 1..Len(es.at) |->
                          u32_from_be_bytes(bytes_at(buf, es.at[i], 4))]])

\* CttsDecoder::decode: the offset is read as a u32 and cast to i32
CttsDecoder_decode(buf, version, flags) ==
    IF Len(buf) < 4 THEN UnexpectedEof
    ELSE LET entry_count == u32_from_be_bytes(bytes_at(buf, 0, 4))
             es == read_entries(buf, 4, entry_count, 8, <<>>)
         IN  IF ~es.ok THEN UnexpectedEof
             ELSE Structured("CompositionTimeToSample",
                     [version |-> unwrap_or(version, 0),
                      flags |-> unwrap_or(flags, 0),
                      entry_count |-> entry_count,
                      entries |-> [i \in 1..Len(es.at) |->
                          [sample_count |->
                               u32_from_be_bytes(bytes_at(buf, es.at[i], 4)),
                           sample_offset |-> u32_as_i32(
                               u32_from_be_bytes(bytes_at(buf, es.at[i] + 4, 4)))]]])

\* StscDecoder::decode
StscDecoder_decode(buf, version, flags) ==
    IF Len(buf) < 4 THEN UnexpectedEof
    ELSE LET entry_count == u32_from_be_bytes(bytes_at(buf, 0, 4))
             es == read_entries(buf, 4, entry_count, 12, <<>>)
         IN  IF ~es.ok THEN UnexpectedEof
             ELSE Structured("SampleToChunk",
                     [version |-> unwrap_or(version, 0),
                      flags |-> unwrap_or(flags, 0),
                      entry_count |-> entry_count,
                      entries |-> [i \in 1..Len(es.at) |->
                          [first_chunk |->
                               u32_from_be_bytes(bytes_at(buf, es.at[i], 4)),
                           samples_per_chunk |->
                               u32_from_be_bytes(bytes_at(buf, es.at[i] + 4, 4)),
                           sample_description_index |->
                               u32_from_be_bytes(bytes_at(buf, es.at[i] + 8, 4))]]])

\* StszDecoder::decode: the sizes are read only when sample_size is 0
StszDecoder_decode(buf, version, flags) ==
    IF Len(buf) < 8 THEN UnexpectedEof
    ELSE LET sample_size == u32_from_be_bytes(bytes_at(buf, 0, 4))
             sample_count == u32_from_be_bytes(bytes_at(buf, 4, 4))
             es == IF sample_size = 0
                     THEN read_entries(buf, 8, sample_count, 4, <<>>)
                     ELSE [ok |-> TRUE, at |-> <<>>]
         IN  IF ~es.ok THEN UnexpectedEof
             ELSE Structured("SampleSize",
                     [version |-> unwrap_or(version, 0),
                      flags |-> unwrap_or(flags, 0),
                      sample_size |-> sample_size,
                      sample_count |-> sample_count,
                      sample_sizes |-> [i \in 1..Len(es.at) |->
                          u32_from_be_bytes(bytes_at(buf, es.at[i], 4))]])

\* StcoDecoder::decode
StcoDecoder_decode(buf, version, flags) ==
    IF Len(buf) < 4 THEN UnexpectedEof
    ELSE LET entry_count == u32_from_be_bytes(bytes_at(buf, 0, 4))
             es == read_entries(buf, 4, entry_count, 4, <<>>)
         IN  IF ~es.ok THEN UnexpectedEof
             ELSE Structured("ChunkOffset",
                     [version |-> unwrap_or(version, 0),
                      flags |-> unwrap_or(flags, 0),
                      entry_count |-> entry_count,
                      chunk_offsets |-> [i \in 1..Len(es.at) |->
                          u32_from_be_bytes(bytes_at(buf, es.at[i], 4))]])

\* Co64Decoder::decode
Co64Decoder_decode(buf, version, flags) ==
    IF Len(buf) < 4 THEN UnexpectedEof
    ELSE LET entry_count == u32_from_be_bytes(bytes_at(buf, 0, 4))
             es == read_entries(buf, 4, entry_count, 8, <<>>)
         IN  IF ~es.ok THEN UnexpectedEof
             ELSE Structured("ChunkOffset64",
                     [version |-> unwrap_or(version, 0),
                      flags |-> unwrap_or(flags, 0),
                      entry_count |-> entry_count,
                      chunk_offsets |-> [i \in 1..Len(es.at) |->
                          u64_from_be_bytes(bytes_at(buf, es.at[i], 8))]])

\* ElstDecoder::decode: version and flags are read from the payload
ElstDecoder_decode(buf) ==
    IF Len(buf) < 8 THEN Text("elst: payload too short ({} bytes)", [len |-> Len(buf)])
    ELSE LET version == buf[1]
             n == read_u32(buf, 4)
             entry_count == unwrap_or(n.v, 0)
             dur64 == read_u64(buf, n.pos)
             mt64 == read_u64(buf, dur64.pos)
             dur32 == read_u32(buf, n.pos)
             mt32 == read_u32(buf, dur32.pos)
             seg_duration == IF version = 1 THEN unwrap_or(dur64.v, u32_as_u64(0))
                             ELSE u32_as_u64(unwrap_or(dur32.v, 0))
             media_time == IF version = 1 THEN unwrap_or(mt64.v, i32_as_i64(0))
                           ELSE i32_as_i64(u32_as_i32(unwrap_or(mt32.v, 0)))
             rate_int == read_i16(buf, IF version = 1 THEN mt64.pos ELSE mt32.pos)
             rate_frac == read_i16(buf, rate_int.pos)
         IN  IF entry_count = 0
               THEN Text("version={} entries=0", [version |-> version])
             ELSE IF is_some(rate_int.v) /\ is_some(rate_frac.v)
               THEN Text("version={} entries={} first: duration={} media_time={} rate={}/{}",
                         [version |-> version, entry_count |-> entry_count,
                          seg_duration |-> seg_duration,
                          media_time |-> media_time,
                          rate_int |-> unwrap(rate_int.v),
                          rate_frac |-> unwrap(rate_frac.v)])
             ELSE Text("version={} entries={} first: duration={} media_time={} (no rate, short payload)",
                       [version |-> version, entry_count |-> entry_count,
                        seg_duration |-> seg_duration,
                        media_time |-> media_time])

\* registry.rs default_registry: the decoders it registers, by type code
BuiltinDecoders ==
    {"ftyp", "mvhd", "tkhd", "mdhd", "hdlr", "sidx", "stsd", "stts", "stss",
     "ctts", "stsc", "stsz", "stco", "co64", "elst"}

\* BoxDecoder::decode of the decoder default_registry has for the type code,
\* on a reader that yields the bytes buf
BoxDecoder_decode(typ, buf, version, flags) ==
    CASE typ = "ftyp" -> FtypDecoder_decode(buf)
      [] typ = "mvhd" -> MvhdDecoder_decode(buf)
      [] typ = "tkhd" -> TkhdDecoder_decode(buf)
      [] typ = "mdhd" -> MdhdDecoder_decode(buf, version, flags)
      [] typ = "hdlr" -> HdlrDecoder_decode(buf, version, flags)
      [] typ = "sidx" -> SidxDecoder_decode(buf)
      [] typ = "stsd" -> StsdDecoder_decode(buf)
      [] typ = "stts" -> SttsDecoder_decode(buf, version, flags)
      [] typ = "stss" -> StssDecoder_decode(buf, version, flags)
      [] typ = "ctts" -> CttsDecoder_decode(buf, version, flags)
      [] typ = "stsc" -> StscDecoder_decode(buf, version, flags)
      [] typ = "stsz" -> StszDecoder_decode(buf, version, flags)
      [] typ = "stco" -> StcoDecoder_decode(buf, version, flags)
      [] typ = "co64" -> Co64Decoder_decode(buf, version, flags)
      [] OTHER -> ElstDecoder_decode(buf)

\* ---------------------------------------------------------------- the walk

VARIABLES
    flen,             \* the length of the file (the stream) in bytes
    overflow_checks,  \* the build panics on integer overflow (else it wraps)
    pos,              \* the stream position
    stack,            \* the calls in progress: get_boxes, then parse_children
    result,           \* "running", "ok", "io", "invalid" or "panic"
    tree,             \* the nodes get_boxes' walk hands on once it is "ok"
    nread,            \* the number of headers read so far
    words,            \* the words of the file the header reads have met
    decode,           \* get_boxes' argument decode (read only by the build)
    lead,             \* the leading payload value the decoders read
    json_boxes,       \* the boxes get_boxes returns once it is "ok"
    last              \* what the last step did (history, read by no action)

\* The sample-table reconstruction (samples.rs).
VARIABLES
    trak,             \* the track box handed to extract_track_samples
    out,              \* what extract_track_samples returned
    rest,             \* the track boxes track_samples_from_reader has yet to visit
    tracks,           \* its `result` vector
    ret               \* what track_samples_from_reader returned

\* The registry (registry.rs Registry).
VARIABLES
    reg,              \* Registry.map: the decoder of each key
    latest,           \* history: the decoder last registered for each key
    rlast             \* history: the last call on the registry

\* The calls of hex_range (api.rs) and of the built-in decoders (registry.rs).
VARIABLES
    dump,             \* history: the last hex_range call and what it returned
    dcall             \* history: the last decoder call and what it returned

callVars == <<dump, dcall>>
regVars == <<reg, latest, rlast>>
buildVars == <<decode, lead, json_boxes>>
walkVars == <<flen, pos, stack, result, tree, nread, words, last, buildVars>>
sampleVars == <<trak, out, rest, tracks, ret>>
vars == <<overflow_checks, walkVars, sampleVars, regVars, callVars>>

\* A BoxRef: hdr and kind; data_offset and data_len are those of a FullBox,
\* Leaf or Unknown kind and kids those of a Container kind.
BoxRef(hdr, kind, data_offset, data_len, kids) ==
    [hdr |-> hdr, kind |-> kind, data_offset |-> data_offset,
     data_len |-> data_len, kids |-> kids]

\* A call in progress: fn is the function, parent_end its range's end,
\* content_start the stream position it was entered at, hdr the header of
\* the container whose children it reads, kids the nodes pushed so far.
Frame(fn, parent_end, content_start, hdr, kids) ==
    [fn |-> fn, parent_end |-> parent_end, content_start |-> content_start,
     hdr |-> hdr, kids |-> kids]

Top == stack[Len(stack)]

NoStep ==
    [op |-> "none", fn |-> "", start |-> 0, limit |-> 0, read_end |-> 0,
     nfields |-> 0, size32 |-> 0, typ |-> "", large |-> 0, size |-> 0,
     width |-> 0, hdr |-> NoHdr, hdr_pos |-> 0, kind |-> "", err |-> "none",
     pushed |-> FALSE, box_end |-> 0]

FileLens == {MaxFileLen - 8, MaxFileLen}

\* No track is being reconstructed.
NoTrak == [tkhd |-> <<>>, mdhd |-> <<>>, stbl |-> <<>>]
NoOut == [status |-> "none"]
\* No call on the registry yet.
NoCall == [op |-> "none"]

\* get_boxes(r, size, decode) is entered with the stream at 0 and size the
\* length of the file.
Init ==
    /\ flen \in FileLens
    /\ overflow_checks \in BOOLEAN
    /\ pos = 0
    /\ stack = <<Frame("get_boxes", flen, 0, NoHdr, <<>>)>>
    /\ result = "running"
    /\ tree = <<>>
    /\ nread = 0
    /\ words = NoWords
    /\ decode = FALSE
    /\ lead = 0
    /\ json_boxes = <<>>
    /\ last = NoStep
    /\ trak = NoTrak
    /\ out = NoOut
    /\ rest = <<>>
    /\ tracks = <<>>
    /\ ret = "idle"
    /\ reg = default_registry
    /\ latest = reg
    /\ rlast = NoCall
    /\ dump = NoCall
    /\ dcall = NoCall

\* The walk ends with an error: the nodes built so far are dropped.
Fail(err, step) ==
    /\ result' = err
    /\ stack' = <<>>
    /\ tree' = <<>>
    /\ last' = step
    /\ UNCHANGED pos

\* The node is pushed on the current call's list and the stream is left at
\* box_end (the seek that ends a loop iteration).
Push(node, box_end, step) ==
    /\ stack' = [stack EXCEPT ![Len(stack)].kids = Append(@, node)]
    /\ pos' = box_end
    /\ last' = step
    /\ UNCHANGED <<result, tree>>

\* One iteration of the loop of parse_children (fn = "parse_children",
\* parser.rs 48-81) or of get_boxes (fn = "get_boxes", api.rs 75-114) that
\* reads the header (size32, typ, large) at the stream position.
Iteration(fn, size32, typ, large) ==
    LET parent_end == Top.parent_end
        h == read_box_header(flen, pos, size32, typ, large)
        hdr == h.hdr
        kind == IF fn = "get_boxes" THEN get_boxes_kind(typ)
                ELSE parse_children_kind(typ)
        box_end == IF hdr.size = 0 THEN parent_end ELSE hdr.start + hdr.size
        content_start == hdr.start + hdr.header_size
        step == [op |-> "iter", fn |-> fn, start |-> pos, limit |-> parent_end,
                 read_end |-> h.pos, nfields |-> h.nfields,
                 size32 |-> IF h.nfields >= 1 THEN size32 ELSE 0,
                 typ |-> IF h.nfields >= 2 THEN typ ELSE "",
                 large |-> IF h.nfields >= 3 THEN large ELSE 0,
                 size |-> h.size, width |-> h.width,
                 hdr |-> hdr, hdr_pos |-> h.pos,
                 kind |-> IF h.err = "none" THEN kind ELSE "",
                 err |-> h.err, pushed |-> FALSE, box_end |-> 0]
    IN  IF h.err # "none" THEN Fail(h.err, step)
        ELSE IF hdr.size # 0 /\ U64AddOverflows(hdr.start, hdr.size)
                             /\ overflow_checks
          THEN Fail("panic", [step EXCEPT !.err = "panic"])
        ELSE IF kind = "Container"
          THEN /\ stack' = Append(stack, Frame("parse_children", box_end,
                                               content_start, hdr, <<>>))
               /\ pos' = content_start
               /\ last' = [step EXCEPT !.box_end = box_end]
               /\ UNCHANGED <<result, tree>>
        ELSE IF kind = "FullBox"
          THEN IF ~CanRead(flen, content_start, 4)
                 THEN Fail("io", [step EXCEPT !.err = "io"])
                 ELSE LET data_offset == content_start + 4
                          data_len == saturating_sub(box_end, data_offset)
                      IN  Push(BoxRef(hdr, kind, data_offset, data_len, <<>>),
                               box_end,
                               [step EXCEPT !.read_end = data_offset,
                                            !.pushed = TRUE,
                                            !.box_end = box_end])
        ELSE LET data_offset == hdr.start + hdr.header_size
                 data_len == saturating_sub(box_end, data_offset)
             IN  Push(BoxRef(hdr, kind, data_offset, data_len, <<>>), box_end,
                      [step EXCEPT !.pushed = TRUE, !.box_end = box_end])

Iterate(fn) ==
    /\ result = "running"
    /\ Top.fn = fn
    /\ U64Lt(pos, Top.parent_end)
    /\ nread < MaxBoxes
    /\ nread' = nread + 1
    /\ \E size32 \in Size32Set, typ \in TypSet :
         \E large \in (IF size32 = 1 THEN LargeSet ELSE {0}) :
            LET h == read_box_header(flen, pos, size32, typ, large)
                fields == FieldsRead(pos, size32, typ, large, h.nfields)
            IN  /\ Fits(words, fields)
                /\ words' = Written(words, fields)
                /\ Iteration(fn, size32, typ, large)
    /\ UNCHANGED <<flen, overflow_checks, buildVars, sampleVars, regVars, callVars>>

\* api.rs get_boxes, one iteration of the top-level loop
get_boxes_iter == Iterate("get_boxes")

\* parser.rs parse_children, one iteration of the loop
parse_children_iter == Iterate("parse_children")

\* parser.rs parse_children returns Ok(kids) to the iteration that called it
\* (of parse_children or of get_boxes): the Container node is built, the
\* stream is sought to the container's box_end and the node is pushed.
parse_children_return ==
    /\ result = "running"
    /\ Top.fn = "parse_children"
    /\ ~U64Lt(pos, Top.parent_end)
    /\ LET f == Top
           node == BoxRef(f.hdr, "Container", 0, 0, f.kids)
           caller == stack[Len(stack) - 1]
       IN  /\ stack' = [SubSeq(stack, 1, Len(stack) - 1)
                          EXCEPT ![Len(stack) - 1].kids = Append(@, node)]
           /\ pos' = f.parent_end
           /\ last' = [NoStep EXCEPT !.op = "return", !.fn = caller.fn,
                                     !.start = f.hdr.start, !.hdr = f.hdr,
                                     !.typ = f.hdr.typ, !.kind = "Container",
                                     !.limit = caller.parent_end,
                                     !.pushed = TRUE,
                                     !.box_end = f.parent_end]
    /\ UNCHANGED <<flen, overflow_checks, result, tree, nread, words,
                 buildVars, sampleVars, regVars, callVars>>

\* api.rs get_boxes: the top-level loop ends, the boxes are built from the
\* nodes with the default registry (decoding the payloads when decode is
\* set) and returned.
get_boxes_done ==
    /\ result = "running"
    /\ Top.fn = "get_boxes"
    /\ ~U64Lt(pos, Top.parent_end)
    /\ \E d \in BOOLEAN :
       \E l \in (IF d THEN LeadSet ELSE {0}) :
         LET b == build_boxes(Top.kids, flen, d, default_registry, l, pos)
         IN  /\ decode' = d
             /\ lead' = l
             /\ json_boxes' = b.boxes
             /\ pos' = b.pos
    /\ result' = "ok"
    /\ tree' = Top.kids
    /\ stack' = <<>>
    /\ last' = [NoStep EXCEPT !.op = "done", !.start = pos]
    /\ UNCHANGED <<flen, overflow_checks, nread, words, sampleVars, regVars, callVars>>

Next ==
    \/ get_boxes_iter
    \/ parse_children_iter
    \/ parse_children_return
    \/ get_boxes_done

Spec == Init /\ [][Next]_vars

\* ------------------------------------------------- the claims on the walk

\* The end of a box in a range that ends at hi: start + size, and hi when
\* the size is 0.
Extent(hdr, hi) == IF hdr.size = 0 THEN hi ELSE hdr.start + hdr.size

RECURSIVE SumExtents(_, _)
SumExtents(kids, hi) ==
    IF kids = <<>> THEN 0
    ELSE (Extent(Head(kids).hdr, hi) - Head(kids).hdr.start)
         + SumExtents(Tail(kids), hi)

\* The children kids of a range [lo, hi) lie in it one after the other, and
\* so do the children of every container among them.
RECURSIVE KidsInside(_, _, _)
KidsInside(kids, lo, hi) ==
    /\ \A k \in 1..Len(kids) :
         LET n == kids[k]
             e == Extent(n.hdr, hi)
         IN  /\ U64Le(lo, n.hdr.start)
             /\ U64Le(n.hdr.start, e)
             /\ U64Le(e, hi)
             /\ k > 1 => U64Le(Extent(kids[k - 1].hdr, hi), n.hdr.start)
             /\ n.kind = "Container" =>
                  KidsInside(n.kids, n.hdr.start + n.hdr.header_size, e)
    /\ U64Le(SumExtents(kids, hi), saturating_sub(hi, lo))

\* The containers among the top-level nodes kids of a file of hi bytes.
ContainersInside(kids, hi) ==
    \A k \in 1..Len(kids) :
       kids[k].kind = "Container" =>
          KidsInside(kids[k].kids,
                     kids[k].hdr.start + kids[k].hdr.header_size,
                     Extent(kids[k].hdr, hi))

\* C1: in every call of parse_children(r, parent_end), running or returned,
\* each child's extent lies inside [content_start, parent_end), siblings do
\* not overlap, the extents sum to at most parent_end - content_start, and
\* the stream position is not beyond parent_end.
C1_ChildrenInsideParent ==
    /\ \A i \in 1..Len(stack) :
         IF stack[i].fn = "parse_children"
           THEN KidsInside(stack[i].kids, stack[i].content_start,
                           stack[i].parent_end)
           ELSE ContainersInside(stack[i].kids, stack[i].parent_end)
    /\ ContainersInside(tree, flen)
    /\ (result = "running" /\ Top.fn = "parse_children" /\ last.pushed)
          => U64Le(pos, Top.parent_end)

\* C2: an iteration of the walk of a range that ends at limit reads no byte
\* at an offset >= limit: not for the header, not for version and flags.
C2_NoReadPastEnd ==
    (last.op = "iter" /\ last.read_end # last.start)
       => U64Le(last.read_end, last.limit)

\* The header width of a header with these fields: 8, plus 8 after a size
\* field of 1, plus 16 for the type uuid.
HeaderWidth(size32, typ) ==
    8 + (IF size32 = 1 THEN 8 ELSE 0) + (IF typ = "uuid" THEN 16 ELSE 0)

\* The size a header with these fields declares.
DeclaredSize(size32, large) == IF size32 = 1 THEN large ELSE size32

\* C3: a header read in full whose declared size is not 0 and is less than
\* its header width makes read_box_header return InvalidSize, and the walk
\* that met it returns that error with no node.
C3_InvalidSizeIsAnError ==
    (/\ last.op = "iter"
     /\ last.nfields = 4
     /\ DeclaredSize(last.size32, last.large) # 0
     /\ U64Lt(DeclaredSize(last.size32, last.large),
              HeaderWidth(last.size32, last.typ)))
       => /\ last.err = "invalid"
          /\ last.hdr = NoHdr
          /\ ~last.pushed
          /\ result = "invalid"
          /\ stack = <<>>
          /\ tree = <<>>

\* C3 happens: a nested box with a large size below its header width.
C3_Witness ==
    /\ result = "invalid"
    /\ last.fn = "parse_children"
    /\ last.size32 = 1
    /\ last.large = 15

\* Every Leaf, Unknown and FullBox node among kids, the children of a range
\* that ends at hi, has data_offset + data_len at the end of its box.
RECURSIVE PayloadEnds(_, _)
PayloadEnds(kids, hi) ==
    \A k \in 1..Len(kids) :
       LET n == kids[k]
       IN  IF n.kind = "Container"
             THEN PayloadEnds(n.kids, Extent(n.hdr, hi))
             ELSE n.data_offset + n.data_len = Extent(n.hdr, hi)

\* C4: for every Leaf, Unknown and FullBox node the walk built, data_offset
\* + data_len is the box's end: start + size, or the enclosing range's end
\* when the size is 0.
C4_PayloadEndsAtBoxEnd ==
    /\ \A i \in 1..Len(stack) : PayloadEnds(stack[i].kids, stack[i].parent_end)
    /\ PayloadEnds(tree, flen)

C6_IterationAdvances ==
    /\ last.pushed => U64Lt(last.start, pos)
    /\ \A i \in 2..Len(stack) :
         stack[i - 1].fn = "parse_children" =>
         U64Lt(saturating_sub(stack[i].parent_end, stack[i].content_start),
               saturating_sub(stack[i - 1].parent_end, stack[i - 1].content_start))
    /\ (last.op = "return" /\ ~U64Lt(last.hdr.start + last.hdr.header_size,
                                      last.box_end))
          => Top.kids[Len(Top.kids)].kids = <<>>

\* C7: the top-level loop and parse_children give a box of a type the same
\* kind, the one of the KnownBox table: mdat is no full box, stsd is one.
C7_SameClassification ==
    (last.op = "iter" /\ last.kind # "")
       => /\ last.kind = get_boxes_kind(last.typ)
          /\ last.typ = "mdat" => last.kind # "FullBox"
          /\ last.typ = "stsd" => last.kind = "FullBox"

\* ------------------------------------------------------- the sample tables

\* The u32 modulus.  The code's is 2^32; the counts of the model stay far
\* below this one, so a wrapped difference is above every count here as it is
\* there.
U32Modulus == 16777216
U32Max == U32Modulus - 1

Min(a, b) == IF a < b THEN a ELSE b

\* samples.rs get_sample_size; index counts from 0
get_sample_size(stsz, index) ==
    IF is_some(stsz)
    THEN IF unwrap(stsz).sample_size > 0
         THEN unwrap(stsz).sample_size
         ELSE IF index + 1 <= Len(unwrap(stsz).sample_sizes)
              THEN unwrap(stsz).sample_sizes[index + 1]
              ELSE 0
    ELSE 0

\* Vec::contains
contains(seq, x) == \E k \in 1..Len(seq) : seq[k] = x

\* A sync lookup that takes the sync table's numbers to count from 0.
is_sync_sample_from_zero(stss, sample_number) ==
    IF is_some(stss)
    THEN contains(unwrap(stss).sample_numbers, sample_number - 1)
    ELSE TRUE

\* samples.rs is_sync_sample; sample_number counts from 1
is_sync_sample(stss, sample_number) ==
    IF is_some(stss)
    THEN contains(unwrap(stss).sample_numbers, sample_number)
    ELSE TRUE

\* the loop of get_sample_duration_from_stts / get_composition_offset_from_ctts:
\* the index of the first entry whose run holds sample_index, 0 when none
\* does, and -1 when the u32 sum current_sample + entry.sample_count
\* overflows in a build with overflow checks (it wraps in one without)
RECURSIVE run_entry(_, _, _, _, _)
run_entry(entries, sample_index, checks, k, current_sample) ==
    IF k > Len(entries) THEN 0
    ELSE LET sum == current_sample + entries[k].sample_count IN
         IF sum > U32Max /\ checks THEN -1
         ELSE IF sample_index < sum % U32Modulus THEN k
         ELSE run_entry(entries, sample_index, checks, k + 1, sum % U32Modulus)

\* samples.rs get_sample_duration_from_stts: [panic, v], v an Option<u32>
get_sample_duration_from_stts(stts, sample_index, checks) ==
    LET k == run_entry(stts.entries, sample_index, checks, 1, 0) IN
    [panic |-> k = -1,
     v |-> IF k > 0 THEN Some(stts.entries[k].sample_delta)
           ELSE IF Len(stts.entries) > 0
                THEN Some(stts.entries[Len(stts.entries)].sample_delta)
                ELSE None]

\* samples.rs get_composition_offset_from_ctts: [panic, v], v an Option<i32>
get_composition_offset_from_ctts(ctts, sample_index, checks) ==
    LET k == run_entry(ctts.entries, sample_index, checks, 1, 0) IN
    [panic |-> k = -1,
     v |-> IF k > 0 THEN Some(ctts.entries[k].sample_offset) ELSE Some(0)]

\* u64::saturating_add_signed, for values far below 2^64
saturating_add_signed(a, d) == IF a + d < 0 THEN 0 ELSE a + d

\* samples.rs get_sample_file_offset, `chunk_count`
chunk_count(tables) ==
    IF is_some(tables.co64) THEN Len(unwrap(tables.co64).chunk_offsets)
    ELSE IF is_some(tables.stco) THEN Len(unwrap(tables.stco).chunk_offsets)
    ELSE 0

\* samples.rs get_sample_file_offset, the closure `get_chunk_offset`;
\* index counts from 0, co64 is preferred
get_chunk_offset(tables, index) ==
    LET offsets == IF is_some(tables.co64) THEN unwrap(tables.co64).chunk_offsets
                   ELSE IF is_some(tables.stco) THEN unwrap(tables.stco).chunk_offsets
                   ELSE <<>>
    IN  IF index + 1 <= Len(offsets) THEN offsets[index + 1] ELSE 0

\* The locals of get_sample_file_offset before its loop over stsc.
ScanStart ==
    [panic |-> FALSE, current_sample |-> 1, chunk_index |-> 0,
     samples_per_chunk |-> 0, sample_offset_in_range |-> 0,
     chunk_offset_in_range |-> 0]

\* samples.rs get_sample_file_offset, the loop over stsc.entries from entry i
\* on.  A u32 subtraction below zero panics in a build with overflow checks
\* and wraps in one without; a division by zero panics in both.
RECURSIVE stsc_scan(_, _, _, _, _, _)
stsc_scan(entries, nchunks, target_sample, checks, i, st) ==
    IF i > Len(entries) THEN st
    ELSE
    LET entry == entries[i]
        next_first_chunk ==
            IF i + 1 <= Len(entries) THEN entries[i + 1].first_chunk
            ELSE nchunks + 1
        spc == entry.samples_per_chunk
        underflow == next_first_chunk < entry.first_chunk
        chunks_with_this_config ==
            (next_first_chunk - entry.first_chunk) % U32Modulus
        samples_in_this_range == chunks_with_this_config * spc
        st1 == [st EXCEPT !.samples_per_chunk = spc]
        sample_offset == target_sample - st.current_sample
    IN  IF underflow /\ checks THEN [st1 EXCEPT !.panic = TRUE]
        ELSE IF st.current_sample + samples_in_this_range > target_sample
        THEN IF spc = 0 \/ (entry.first_chunk = 0 /\ checks)
             THEN [st1 EXCEPT !.panic = TRUE,
                              !.sample_offset_in_range = sample_offset]
             ELSE [st1 EXCEPT !.sample_offset_in_range = sample_offset,
                              !.chunk_offset_in_range = sample_offset \div spc,
                              !.chunk_index =
                                  ((entry.first_chunk - 1) % U32Modulus)
                                  + (sample_offset \div spc)]
        ELSE stsc_scan(entries, nchunks, target_sample, checks, i + 1,
                 [st1 EXCEPT !.current_sample =
                     Min(st.current_sample + samples_in_this_range, U32Max)])

\* A sum that gives every preceding sample the size of the chunk's first one.
sum_sizes_as_first(sizes, first, n) ==
    n * (IF first < Len(sizes) THEN sizes[first + 1] ELSE 0)

\* samples.rs get_sample_file_offset, the sum over the samples that precede
\* the target in its chunk: sizes[first + 1 .. first + n] where present
RECURSIVE sum_sizes(_, _, _)
sum_sizes(sizes, first, n) ==
    IF n = 0 THEN 0
    ELSE sum_sizes(sizes, first, n - 1)
         + (IF first + n - 1 < Len(sizes) THEN sizes[first + n] ELSE 0)

\* samples.rs get_sample_file_offset: [panic, v], v the offset returned
get_sample_file_offset(tables, sample_index, checks) ==
    IF ~is_some(tables.stsc) \/ ~is_some(tables.stsz)
       \/ (~is_some(tables.co64) /\ ~is_some(tables.stco))
    THEN [panic |-> FALSE, v |-> 0]
    ELSE
    LET stsz == unwrap(tables.stsz)
        st == stsc_scan(unwrap(tables.stsc).entries, chunk_count(tables),
                        sample_index + 1, checks, 1, ScanStart)
        sample_in_chunk == st.sample_offset_in_range % st.samples_per_chunk
        chunk_start_sample ==
            st.current_sample - 1
            + st.chunk_offset_in_range * st.samples_per_chunk
        offset_in_chunk ==
            IF stsz.sample_size > 0 THEN sample_in_chunk * stsz.sample_size
            ELSE IF Len(stsz.sample_sizes) > 0
                 THEN sum_sizes(stsz.sample_sizes, chunk_start_sample,
                                sample_in_chunk)
                 ELSE 0
    IN  IF st.panic THEN [panic |-> TRUE, v |-> 0]
        ELSE IF st.chunk_index >= chunk_count(tables)
        THEN [panic |-> FALSE, v |-> 0]
        ELSE IF st.samples_per_chunk = 0 THEN [panic |-> TRUE, v |-> 0]
        ELSE [panic |-> FALSE,
              v |-> get_chunk_offset(tables, st.chunk_index) + offset_in_chunk]

\* samples.rs build_sample_info, `default_duration`
default_duration(timescale) == IF timescale > 0 THEN timescale \div 24 ELSE 1000

\* samples.rs build_sample_info, one iteration: a lookup of sample i panics
sample_panics(tables, i, checks) ==
    \/ is_some(tables.stts)
         /\ get_sample_duration_from_stts(unwrap(tables.stts), i, checks).panic
    \/ is_some(tables.ctts)
         /\ get_composition_offset_from_ctts(unwrap(tables.ctts), i, checks).panic
    \/ get_sample_file_offset(tables, i, checks).panic

\* samples.rs build_sample_info, one SampleInfo (start_time, a float quotient
\* of pts and timescale, is left out)
SampleInfo(tables, timescale, i, current_dts, checks) ==
    LET duration ==
            IF is_some(tables.stts)
            THEN LET d == get_sample_duration_from_stts(unwrap(tables.stts), i,
                                                        checks).v
                 IN  IF is_some(d) THEN unwrap(d) ELSE default_duration(timescale)
            ELSE default_duration(timescale)
        composition_offset ==
            IF is_some(tables.ctts)
            THEN unwrap(get_composition_offset_from_ctts(unwrap(tables.ctts), i,
                                                         checks).v)
            ELSE 0
    IN  [index |-> i,
         dts |-> current_dts,
         pts |-> saturating_add_signed(current_dts, composition_offset),
         duration |-> duration,
         rendered_offset |-> composition_offset,
         file_offset |-> get_sample_file_offset(tables, i, checks).v,
         size |-> get_sample_size(tables.stsz, i),
         is_sync |-> is_sync_sample(tables.stss, i + 1)]

\* A decode time that stays where it is.
next_dts_unchanged(current_dts, duration) == current_dts

\* samples.rs build_sample_info, `current_dts += duration as u64` (the sum
\* of at most 2^32 - 1 durations below 2^32 is below 2^64)
next_dts(current_dts, duration) == current_dts + duration

\* samples.rs build_sample_info, the loop `for i in 0..sample_count` from i on
RECURSIVE build_loop(_, _, _, _, _, _, _)
build_loop(tables, timescale, sample_count, checks, i, current_dts, samples) ==
    IF i >= sample_count THEN [panic |-> FALSE, samples |-> samples]
    ELSE IF sample_panics(tables, i, checks)
    THEN [panic |-> TRUE, samples |-> <<>>]
    ELSE LET sample == SampleInfo(tables, timescale, i, current_dts, checks)
         IN  build_loop(tables, timescale, sample_count, checks, i + 1,
                        next_dts(current_dts, sample.duration),
                        Append(samples, sample))

\* A build that, without a sample-size table, takes one sample per entry of
\* the time-to-sample table.
build_sample_info_stts_fallback(tables, timescale, checks) ==
    build_loop(tables, timescale,
               IF is_some(tables.stsz) THEN unwrap(tables.stsz).sample_count
               ELSE IF is_some(tables.stts) THEN Len(unwrap(tables.stts).entries)
               ELSE 0,
               checks, 0, 0, <<>>)

\* A build that takes the length of the size list for the sample count.
build_sample_info_by_size_list(tables, timescale, checks) ==
    IF ~is_some(tables.stsz) THEN [panic |-> FALSE, samples |-> <<>>]
    ELSE build_loop(tables, timescale, Len(unwrap(tables.stsz).sample_sizes),
                    checks, 0, 0, <<>>)

\* samples.rs build_sample_info
build_sample_info(tables, timescale, checks) ==
    IF ~is_some(tables.stsz) THEN [panic |-> FALSE, samples |-> <<>>]
    ELSE build_loop(tables, timescale, unwrap(tables.stsz).sample_count,
                    checks, 0, 0, <<>>)

\* samples.rs extract_track_samples.  The track box is given by what the
\* lookups find in it: the track id of its tkhd, the decoded mdhd of its mdia,
\* and the decoded tables of its mdia/minf/stbl (extract_sample_tables).
extract_track_samples(t, checks) ==
    IF ~is_some(t.tkhd)
    THEN [status |-> "err", msg |-> "No tkhd box found or track ID could not be parsed"]
    ELSE IF ~is_some(t.stbl)
    THEN [status |-> "err", msg |-> "stbl box not found"]
    ELSE LET timescale == IF is_some(t.mdhd) THEN unwrap(t.mdhd).timescale ELSE 1000
             duration == IF is_some(t.mdhd) THEN unwrap(t.mdhd).duration ELSE 0
             built == build_sample_info(unwrap(t.stbl), timescale, checks)
         IN  IF built.panic THEN [status |-> "panic"]
             ELSE [status |-> "ok",
                   track |-> [track_id |-> unwrap(t.tkhd),
                              timescale |-> timescale,
                              duration |-> duration,
                              sample_count |-> Len(built.samples),
                              samples |-> built.samples]]

\* ---------------------------------------------------------- sample inputs

\* The most samples a sample-size table declares.
MaxSamples == 4
\* The most chunks a chunk-offset table lists.
MaxChunks == 3

SampleSizes(n) == [k \in 1..n |-> 1000 * k]
ChunkOffsets(m, base) == [c \in 1..m |-> base + 20000 * (c - 1)]

\* registry.rs StszData: no table, one size for all, or a size per sample
\* (the list may be one short of sample_count)
UniformStsz ==
    {Some([sample_size |-> 500, sample_count |-> n, sample_sizes |-> <<>>]) :
        n \in 0..MaxSamples}
VariableStsz ==
    UNION {{Some([sample_size |-> 0, sample_count |-> n,
                  sample_sizes |-> SampleSizes(m)]) :
                m \in {n} \cup ({n - 1} \cap Nat)} : n \in 0..MaxSamples}
StszSet == {None} \cup UniformStsz \cup VariableStsz

\* registry.rs StscData (sample_description_index is not read by samples.rs)
StscEntrySet == [first_chunk : 0..MaxChunks, samples_per_chunk : 0..3]
StscSet ==
    {None} \cup {Some([entries |-> e]) :
        e \in {<<>>} \cup {<<a>> : a \in StscEntrySet}
              \cup {<<a, b>> : a \in StscEntrySet, b \in StscEntrySet}}

\* registry.rs StcoData and Co64Data
StcoSet ==
    {None} \cup {Some([chunk_offsets |-> ChunkOffsets(m, 5000)]) : m \in 0..MaxChunks}
Co64Set == {None, Some([chunk_offsets |-> ChunkOffsets(MaxChunks, 7000)])}

\* registry.rs StssData: ascending sample numbers
StssSet ==
    {None} \cup {Some([sample_numbers |-> q]) :
        q \in UNION {{f \in [1..m -> 1..MaxSamples] :
                        \A k \in 1..(m - 1) : f[k] < f[k + 1]} : m \in 0..MaxSamples}}

\* registry.rs SttsData and CttsData
SttsSet ==
    {None} \cup {Some([entries |-> e]) : e \in
        {<<>>,
         <<[sample_count |-> 2, sample_delta |-> 10]>>,
         <<[sample_count |-> 1, sample_delta |-> 10],
           [sample_count |-> 2, sample_delta |-> 20]>>,
         <<[sample_count |-> 0, sample_delta |-> 5],
           [sample_count |-> 3, sample_delta |-> 0]>>,
         <<[sample_count |-> 1, sample_delta |-> 10],
           [sample_count |-> U32Max, sample_delta |-> 20],
           [sample_count |-> 1, sample_delta |-> 30]>>}}
CttsSet ==
    {None} \cup {Some([entries |-> e]) : e \in
        {<<>>,
         <<[sample_count |-> 1, sample_offset |-> 5],
           [sample_count |-> 2, sample_offset |-> -3]>>,
         <<[sample_count |-> 2, sample_offset |-> -50]>>}}

\* registry.rs MdhdData as find_media_info reads it
MdhdSet ==
    {None, Some([timescale |-> 0, duration |-> 0]),
           Some([timescale |-> 48, duration |-> 96])}

\* samples.rs SampleTables (stsd is not read by build_sample_info)
SampleTables(stts, ctts, stsc, stsz, stss, stco, co64) ==
    [stts |-> stts, ctts |-> ctts, stsc |-> stsc, stsz |-> stsz,
     stss |-> stss, stco |-> stco, co64 |-> co64]

\* Tracks whose chunk layout varies, tracks whose timing and sync tables
\* vary, and tracks that lack the track header or the sample table box.
LayoutTraks ==
    {[tkhd |-> Some(1), mdhd |-> None,
      stbl |-> Some(SampleTables(None, None, stsc, stsz, None, stco, co64))] :
        stsc \in StscSet, stsz \in StszSet, stco \in StcoSet, co64 \in Co64Set}
TimingTraks ==
    {[tkhd |-> Some(2), mdhd |-> mdhd,
      stbl |-> Some(SampleTables(stts, ctts, None, stsz, stss, None, None))] :
        mdhd \in MdhdSet, stts \in SttsSet, ctts \in CttsSet,
        stsz \in {None} \cup UniformStsz, stss \in StssSet}
BrokenTraks ==
    {[tkhd |-> tkhd, mdhd |-> None, stbl |-> stbl] :
        tkhd \in {None, Some(3)},
        stbl \in {None, Some(SampleTables(None, None, None, None, None, None, None))}}
TrakSet == LayoutTraks \cup TimingTraks \cup BrokenTraks

\* --------------------------------------------- the sample reconstruction

\* A track that reconstructs to one sample.
PlainTrak ==
    [tkhd |-> Some(9), mdhd |-> None,
     stbl |-> Some(SampleTables(None, None, None,
                 Some([sample_size |-> 500, sample_count |-> 1, sample_sizes |-> <<>>]),
                 None, None, None))]

\* The track boxes that follow the first one in the moov box: none, or (after
\* a track whose timing varies or that lacks a box) a plain one.
RestSet(t) == IF t \in LayoutTraks THEN {<<>>} ELSE {<<>>, <<PlainTrak>>}

\* track_samples_from_reader has the box tree and is about to hand the first
\* track box to extract_track_samples.
SamplesInit ==
    /\ overflow_checks \in BOOLEAN
    /\ trak \in TrakSet
    /\ rest \in RestSet(trak)
    /\ out = NoOut
    /\ tracks = <<>>
    /\ ret = "running"
    /\ reg = default_registry
    /\ latest = reg
    /\ rlast = NoCall
    /\ dump = NoCall
    /\ dcall = NoCall
    /\ flen = 0
    /\ pos = 0
    /\ stack = <<>>
    /\ result = "idle"
    /\ tree = <<>>
    /\ nread = 0
    /\ words = NoWords
    /\ decode = FALSE
    /\ lead = 0
    /\ json_boxes = <<>>
    /\ last = NoStep

\* samples.rs extract_track_samples, the whole call
extract_track_samples_call ==
    /\ ret = "running"
    /\ out = NoOut
    /\ trak # NoTrak
    /\ out' = extract_track_samples(trak, overflow_checks)
    /\ UNCHANGED <<overflow_checks, trak, rest, tracks, ret, walkVars, regVars, callVars>>

\* samples.rs track_samples_from_reader: the track is pushed and the loop
\* goes on to the next track box
next_track ==
    /\ ret = "running"
    /\ out.status = "ok"
    /\ rest # <<>>
    /\ tracks' = Append(tracks, out.track)
    /\ trak' = Head(rest)
    /\ rest' = Tail(rest)
    /\ out' = NoOut
    /\ UNCHANGED <<overflow_checks, ret, walkVars, regVars, callVars>>

\* samples.rs track_samples_from_reader: the last track is pushed and the
\* vector returned
reader_return ==
    /\ ret = "running"
    /\ out.status = "ok"
    /\ rest = <<>>
    /\ tracks' = Append(tracks, out.track)
    /\ ret' = "ok"
    /\ UNCHANGED <<overflow_checks, trak, out, rest, walkVars, regVars, callVars>>

\* samples.rs track_samples_from_reader: `?` on the error of
\* extract_track_samples returns it and drops the vector
reader_fail ==
    /\ ret = "running"
    /\ out.status = "err"
    /\ tracks' = <<>>
    /\ ret' = "err"
    /\ UNCHANGED <<overflow_checks, trak, out, rest, walkVars, regVars, callVars>>

\* a panic in extract_track_samples unwinds through track_samples_from_reader
reader_abort ==
    /\ ret = "running"
    /\ out.status = "panic"
    /\ tracks' = <<>>
    /\ ret' = "panic"
    /\ UNCHANGED <<overflow_checks, trak, out, rest, walkVars, regVars, callVars>>

SamplesNext ==
    \/ extract_track_samples_call
    \/ next_track
    \/ reader_return
    \/ reader_fail
    \/ reader_abort

SpecSamples == SamplesInit /\ [][SamplesNext]_vars

\* ---------------------------------- the claims on the sample reconstruction

Tables == unwrap(trak.stbl)
Produced == out.status = "ok"
Samples == out.track.samples

\* The sample-to-chunk table read as the container format defines it: chunk c
\* (from 1) holds the samples_per_chunk of the last entry whose first_chunk
\* is at most c, and the chunks hold the samples in order.
SpcOfChunk(entries, c) ==
    LET ks == {k \in 1..Len(entries) : entries[k].first_chunk <= c} IN
    IF ks = {} THEN 0
    ELSE entries[CHOOSE k \in ks : \A j \in ks : j <= k].samples_per_chunk

RECURSIVE FirstSampleOfChunk(_, _)
FirstSampleOfChunk(entries, c) ==
    IF c <= 1 THEN 1
    ELSE FirstSampleOfChunk(entries, c - 1) + SpcOfChunk(entries, c - 1)

\* chunk c holds sample number n (from 1)
ChunkHolds(entries, c, n) ==
    /\ FirstSampleOfChunk(entries, c) <= n
    /\ n < FirstSampleOfChunk(entries, c) + SpcOfChunk(entries, c)

\* the chunk-offset table of a track that has exactly one
TheChunkOffsets ==
    IF is_some(Tables.co64) THEN unwrap(Tables.co64).chunk_offsets
    ELSE unwrap(Tables.stco).chunk_offsets

RECURSIVE SizesBetween(_, _, _)
SizesBetween(samples, from, to) ==
    IF to < from THEN 0
    ELSE SizesBetween(samples, from, to - 1) + samples[to].size

\* ascending first_chunk >= 1, samples_per_chunk >= 1, and every sample of
\* the track in a chunk that the chunk-offset table lists
WellFormedTables ==
    /\ is_some(trak.tkhd) /\ is_some(trak.stbl)
    /\ is_some(Tables.stsc) /\ is_some(Tables.stsz)
    /\ is_some(Tables.co64) # is_some(Tables.stco)
    /\ LET entries == unwrap(Tables.stsc).entries IN
       /\ \A k \in 1..Len(entries) :
            entries[k].first_chunk >= 1 /\ entries[k].samples_per_chunk >= 1
       /\ \A k \in 1..(Len(entries) - 1) :
            entries[k].first_chunk < entries[k + 1].first_chunk
       /\ \A n \in 1..unwrap(Tables.stsz).sample_count :
            \E c \in 1..Len(TheChunkOffsets) : ChunkHolds(entries, c, n)

\* C8: for well-formed tables the file_offset of sample i is the base offset
\* of the chunk that holds sample i+1 plus the sizes of the samples that
\* precede it in that chunk.
C8_FileOffsetInChunk ==
    (out # NoOut /\ WellFormedTables) =>
        /\ Produced
        /\ Len(Samples) = unwrap(Tables.stsz).sample_count
        /\ \A n \in 1..Len(Samples) :
             \A c \in 1..Len(TheChunkOffsets) :
                ChunkHolds(unwrap(Tables.stsc).entries, c, n) =>
                    Samples[n].file_offset =
                        TheChunkOffsets[c]
                        + SizesBetween(Samples,
                              FirstSampleOfChunk(unwrap(Tables.stsc).entries, c),
                              n - 1)

\* sizes 1000, 2000, 3000 in one chunk at 5000 give 5000, 6000, 8000
C8_Witness ==
    /\ out # NoOut /\ WellFormedTables /\ Produced
    /\ unwrap(Tables.stsz).sample_sizes = <<1000, 2000, 3000>>
    /\ TheChunkOffsets = <<5000>>
    /\ [k \in 1..Len(Samples) |-> Samples[k].file_offset] = <<5000, 6000, 8000>>

\* C9: the sample sequence has stsz.sample_count elements, element k has
\* index k, and TrackSamples.sample_count is the length of the sequence.
C9_SampleCountAndIndex ==
    Produced =>
        /\ out.track.sample_count = Len(Samples)
        /\ is_some(Tables.stsz) =>
              Len(Samples) = unwrap(Tables.stsz).sample_count
        /\ \A k \in 1..Len(Samples) : Samples[k].index = k - 1

C9_Witness ==
    /\ Produced
    /\ is_some(Tables.stsz)
    /\ unwrap(Tables.stsz).sample_count = 3
    /\ [k \in 1..Len(Samples) |-> Samples[k].index] = <<0, 1, 2>>
    /\ out.track.sample_count = 3

\* C10: sample i is a sync sample exactly when the sync table lists i+1, and
\* every sample is one when the track has no sync table.
C10_SyncSamples ==
    Produced =>
        \A k \in 1..Len(Samples) :
            Samples[k].is_sync =
                (~is_some(Tables.stss)
                 \/ k \in {unwrap(Tables.stss).sample_numbers[j] :
                             j \in 1..Len(unwrap(Tables.stss).sample_numbers)})

\* the sync table {1, 3} over three samples gives true, false, true
C10_Witness ==
    /\ Produced
    /\ is_some(Tables.stss)
    /\ unwrap(Tables.stss).sample_numbers = <<1, 3>>
    /\ [k \in 1..Len(Samples) |-> Samples[k].is_sync] = <<TRUE, FALSE, TRUE>>

\* C11: the pts of every sample is its dts plus the signed composition
\* offset, also when the offset is negative and larger than the dts.
C11_PtsIsDtsPlusOffset ==
    Produced =>
        \A k \in 1..Len(Samples) :
            Samples[k].pts = Samples[k].dts + Samples[k].rendered_offset

\* A track with a track header that has no sample table box, or whose
\* sample-size table reports no samples.
NoSamplesTrack(t) ==
    /\ is_some(t.tkhd)
    /\ \/ ~is_some(t.stbl)
       \/ /\ is_some(unwrap(t.stbl).stsz)
          /\ unwrap(unwrap(t.stbl).stsz).sample_count = 0

\* C12: a track without a sample table box or with zero samples makes
\* extract_track_samples return no error and no sample sequence, and
\* track_samples_from_reader goes on: it does not fail at such a track and
\* does not put it in its result.
C12_TrackWithoutSamplesIsSkipped ==
    (out # NoOut /\ NoSamplesTrack(trak)) =>
        /\ out.status = "ok"
        /\ ret # "err"
        /\ \A k \in 1..Len(tracks) : tracks[k].track_id # unwrap(trak.tkhd)

\* C13: sample tables without a sample-size table reconstruct to the empty
\* sample list and no error, whatever the other tables hold.
C13_NoStszGivesNoSamples ==
    (/\ out # NoOut
     /\ is_some(trak.tkhd) /\ is_some(trak.stbl)
     /\ ~is_some(Tables.stsz))
       => /\ out.status = "ok"
          /\ out.track.samples = <<>>
          /\ out.track.sample_count = 0

\* C13 happens: no sample-size table beside a sample-to-chunk table with
\* zero samples per chunk and a chunk-offset table.
C13_Witness ==
    /\ out.status = "ok"
    /\ ~is_some(Tables.stsz)
    /\ is_some(Tables.stsc) /\ is_some(Tables.stco)
    /\ Len(unwrap(Tables.stsc).entries) = 1
    /\ unwrap(Tables.stsc).entries[1].samples_per_chunk = 0
    /\ Len(unwrap(Tables.stco).chunk_offsets) = 1
    /\ out.track.samples = <<>>

\* C14: reconstruction never aborts: for every combination of tables a
\* track with a track header and a sample table box gets a sample sequence.
C14_ReconstructionNeverAborts ==
    (out # NoOut /\ is_some(trak.tkhd) /\ is_some(trak.stbl))
       => out.status = "ok"

\* The delta of the first entry of a time-to-sample table whose cumulative
\* sample count exceeds i, and the last entry's delta when none does.
RECURSIVE CumulativeCount(_, _)
CumulativeCount(entries, k) ==
    IF k = 0 THEN 0 ELSE CumulativeCount(entries, k - 1) + entries[k].sample_count

DeltaOf(entries, i) ==
    LET ks == {k \in 1..Len(entries) : CumulativeCount(entries, k) > i} IN
    IF ks = {} THEN entries[Len(entries)].sample_delta
    ELSE entries[CHOOSE k \in ks : \A j \in ks : k <= j].sample_delta

\* C24: the duration of sample i is the delta of the first time-to-sample
\* entry whose cumulative sample count exceeds i, the last entry's delta
\* when i exceeds all entries, and timescale / 24 (1000 for timescale 0)
\* when the track has no time-to-sample table.
C24_DurationFromStts ==
    Produced =>
        \A k \in 1..Len(Samples) :
             IF ~is_some(Tables.stts)
               THEN Samples[k].duration =
                        (IF out.track.timescale = 0 THEN 1000
                         ELSE out.track.timescale \div 24)
               ELSE Len(unwrap(Tables.stts).entries) > 0 =>
                        Samples[k].duration =
                            DeltaOf(unwrap(Tables.stts).entries, k - 1)

\* C25: the dts of sample 0 is 0 and the dts of sample i+1 is the dts of
\* sample i plus the duration of sample i, so the decode times do not
\* decrease along the sequence.
C25_DtsIsRunningSum ==
    Produced =>
        /\ Len(Samples) > 0 => Samples[1].dts = 0
        /\ \A k \in 1..(Len(Samples) - 1) :
             /\ Samples[k + 1].dts = Samples[k].dts + Samples[k].duration
             /\ Samples[k].dts <= Samples[k + 1].dts

\* durations 10, 20, 20 give the decode times 0, 10, 30
C25_Witness ==
    /\ Produced
    /\ [k \in 1..Len(Samples) |-> Samples[k].duration] = <<10, 20, 20>>
    /\ [k \in 1..Len(Samples) |-> Samples[k].dts] = <<0, 10, 30>>

\* C26: the size of sample i is the uniform sample_size when the sample-size
\* table declares a non-zero one, otherwise element i of the size array;
\* a sample without an element in the array gets no defaulted size.
C26_SampleSize ==
    (Produced /\ is_some(Tables.stsz)) =>
        \A k \in 1..Len(Samples) :
            IF unwrap(Tables.stsz).sample_size > 0
              THEN Samples[k].size = unwrap(Tables.stsz).sample_size
              ELSE /\ k <= Len(unwrap(Tables.stsz).sample_sizes)
                   /\ Samples[k].size = unwrap(Tables.stsz).sample_sizes[k]

\* Sample number n (from 1) cannot be located in a chunk: a table is absent,
\* or the sample-to-chunk table (ascending first_chunk from 1 on) puts n in
\* no chunk that the chunk-offset table lists.
Unlocatable(n) ==
    \/ ~is_some(Tables.stsc)
    \/ ~is_some(Tables.stsz)
    \/ ~is_some(Tables.co64) /\ ~is_some(Tables.stco)
    \/ LET entries == unwrap(Tables.stsc).entries IN
       /\ \A k \in 1..Len(entries) :
            entries[k].first_chunk >= 1 /\ entries[k].samples_per_chunk >= 1
       /\ \A k \in 1..(Len(entries) - 1) :
            entries[k].first_chunk < entries[k + 1].first_chunk
       /\ Len(entries) > 0 => entries[1].first_chunk = 1
       /\ ~\E c \in 1..chunk_count(Tables) : ChunkHolds(entries, c, n)

\* C30: a sample that cannot be located in a chunk gets the file_offset 0,
\* never the offset of another chunk.
C30_UnlocatableSampleAtZero ==
    Produced =>
        \A k \in 1..Len(Samples) :
            Unlocatable(k) => Samples[k].file_offset = 0

\* ------------------------------------------------------ calls on a registry
\* Keys that callers register decoders for, and payload lengths handed to a
\* decoder.
WithKeySet == {"ftyp", "mvhd", "Uuid"}
AvailSet == {0, 4, 12, 20, 32}

RegistryInit ==
    /\ overflow_checks \in BOOLEAN
    /\ reg \in {Registry_new, default_registry}
    /\ latest = reg
    /\ rlast = NoCall
    /\ dump = NoCall
    /\ dcall = NoCall
    /\ flen = 0
    /\ pos = 0
    /\ stack = <<>>
    /\ result = "idle"
    /\ tree = <<>>
    /\ nread = 0
    /\ words = NoWords
    /\ decode = FALSE
    /\ lead = 0
    /\ json_boxes = <<>>
    /\ last = NoStep
    /\ trak = NoTrak
    /\ out = NoOut
    /\ rest = <<>>
    /\ tracks = <<>>
    /\ ret = "idle"

\* registry.rs Registry::with_decoder
with_decoder_call ==
    \E key \in WithKeySet, dec \in DecoderSet :
        /\ reg' = with_decoder(reg, key, dec)
        /\ latest' = [latest EXCEPT ![key] = dec]
        /\ rlast' = [op |-> "with_decoder", key |-> key, dec |-> dec,
                     before |-> reg]
        /\ UNCHANGED <<overflow_checks, walkVars, sampleVars, callVars>>

\* registry.rs Registry::decode, and what api.rs decode_value makes of it
decode_call ==
    \E key \in BoxKeySet, avail \in AvailSet, ld \in LeadSet :
        LET res == Registry_decode(reg, key, avail, ld) IN
        /\ rlast' = [op |-> "decode", key |-> key, avail |-> avail,
                     lead |-> ld, res |-> res, value |-> decoded_of(res)]
        /\ UNCHANGED <<reg, latest, overflow_checks, walkVars, sampleVars,
                       callVars>>

RegistryNext == with_decoder_call \/ decode_call

SpecRegistry == RegistryInit /\ [][RegistryNext]_vars

\* C15: Registry::decode returns None exactly when the key has no registered
\* decoder, and otherwise Some of that decoder's result, so a failed decoder
\* (Some(Err)) differs from an absent one; in the box accessor the box
\* without a decoder has no decoded value and the box whose decoder failed
\* has the error text.
C15_AbsentDecoderIsNotAFailure ==
    rlast.op = "decode" =>
        /\ (rlast.res = None) <=> (reg[rlast.key] = NoDecoder)
        /\ reg[rlast.key] # NoDecoder =>
             rlast.res =
                 Some(decoder_decode(reg[rlast.key], rlast.avail, rlast.lead))
        /\ reg[rlast.key] = NoDecoder => rlast.value.decoded = None
        /\ (is_some(rlast.res) /\ ~unwrap(rlast.res).ok) =>
             /\ is_some(rlast.value.decoded)
             /\ unwrap(rlast.value.decoded)[1] = "[decode error: "
             /\ unwrap(rlast.value.decoded)[2] = unwrap(rlast.res).text

C15_Witness ==
    /\ rlast.op = "decode"
    /\ is_some(rlast.res)
    /\ ~unwrap(rlast.res).ok
    /\ is_some(rlast.value.decoded)

\* C16: after any sequence of with_decoder calls, decode(key) dispatches to
\* the decoder most recently registered for that key, and registering a
\* decoder for one key leaves the decoders of all other keys unchanged.
C16_LastRegistrationWins ==
    /\ rlast.op = "decode" =>
         rlast.res =
             (IF latest[rlast.key] = NoDecoder THEN None
              ELSE Some(decoder_decode(latest[rlast.key], rlast.avail,
                                       rlast.lead)))
    /\ rlast.op = "with_decoder" =>
         /\ reg[rlast.key] = rlast.dec
         /\ \A k \in BoxKeySet \ {rlast.key} : reg[k] = rlast.before[k]

C16_Witness ==
    /\ rlast.op = "decode"
    /\ rlast.key = "ftyp"
    /\ reg["ftyp"] = "DummyDecoder"
    /\ is_some(rlast.res)
    /\ unwrap(rlast.res).kind = "Bytes"

\* ------------------------------------------------- the claims on the build

\* The boxes of a list and of the children lists below it.
RECURSIVE AllBoxes(_)
AllBoxes(bs) ==
    UNION {{bs[i]} \cup (IF is_some(bs[i].children)
                           THEN AllBoxes(unwrap(bs[i].children)) ELSE {})
           : i \in 1..Len(bs)}

\* What the default decoder of the box gives on the bytes of its reader.
OwnDecode(box) ==
    decoder_decode(default_registry[BoxKey_of(box.typ)],
                   unwrap(box.reader).avail, lead)

\* The decoder handed the box's reader failed.
DecoderFailed(box) == is_some(box.reader) /\ ~OwnDecode(box).ok

\* The keys of the boxes whose decoder failed, and the registry in which the
\* decoders of these keys never fail.
FailedKeys == {BoxKey_of(b.typ) : b \in {x \in AllBoxes(json_boxes) : DecoderFailed(x)}}
NeverFailing ==
    [k \in BoxKeySet |-> IF k \in FailedKeys THEN "DummyDecoder"
                         ELSE default_registry[k]]

\* Two box lists are the same boxes with the same children, and every box
\* of a key whose decoder never failed is the same in both.
RECURSIVE SameButFailed(_, _)
SameButFailed(as, bs) ==
    /\ Len(as) = Len(bs)
    /\ \A i \in 1..Len(as) :
         LET a == as[i]
             b == bs[i]
             geometry(x) == [x EXCEPT !.decoded = None,
                                      !.structured_data = None,
                                      !.children = None]
         IN  IF BoxKey_of(a.typ) \in FailedKeys THEN geometry(a) = geometry(b)
             ELSE IF is_some(a.children)
               THEN /\ is_some(b.children)
                    /\ [a EXCEPT !.children = None] = [b EXCEPT !.children = None]
                    /\ SameButFailed(unwrap(a.children), unwrap(b.children))
             ELSE a = b

\* C17: in get_boxes with decode = true a decoder that fails on a box only
\* attaches the error text to that box: get_boxes succeeds, and the boxes
\* are those a registry whose decoders do not fail gives, with the same
\* children, every other box having the same fields and the decoded value
\* of its own decoder on its own payload.
C17_FailedDecodeTouchesOneBox ==
    (result = "ok" /\ decode) =>
        /\ \A b \in AllBoxes(json_boxes) :
             /\ DecoderFailed(b) =>
                  is_decode_error(b.decoded) /\ b.structured_data = None
             /\ (is_some(b.reader) /\ ~DecoderFailed(b)) =>
                  /\ b.decoded = decoded_of(Some(OwnDecode(b))).decoded
                  /\ b.structured_data =
                       decoded_of(Some(OwnDecode(b))).structured_data
                  /\ ~is_decode_error(b.decoded)
             /\ ~is_some(b.reader) => b.decoded = None
        /\ SameButFailed(json_boxes,
                         build_boxes(tree, flen, TRUE, NeverFailing, lead,
                                     last.start).boxes)

C17_Witness ==
    /\ result = "ok"
    /\ decode
    /\ \E i, j \in 1..Len(json_boxes) :
         /\ i < j
         /\ DecoderFailed(json_boxes[i])
         /\ is_decode_error(json_boxes[i].decoded)
         /\ is_some(json_boxes[j].decoded)
         /\ ~is_decode_error(json_boxes[j].decoded)

\* The bytes [lo, lo + n) of the file and the box b of a range ending at hi
\* have a byte in common.
TouchesBox(lo, n, b, hi) ==
    LET box_end == IF b.size = 0 THEN hi
                   ELSE IF U64AddOverflows(b.offset, b.size) THEN flen
                   ELSE b.offset + b.size
    IN  /\ n > 0
        /\ b.offset < lo + n
        /\ U64Lt(lo, box_end)

\* In a list of sibling boxes of a range ending at hi every reader handed to
\* a decoder starts at the payload of its box, is limited to the payload's
\* declared length and yields no byte of a sibling; so for the children.
RECURSIVE ReadersInPayload(_, _)
ReadersInPayload(bs, hi) ==
    \A i \in 1..Len(bs) :
        LET b == bs[i]
            box_end == IF b.size = 0 THEN hi ELSE b.offset + b.size
            rd == unwrap(b.reader)
            payload == b.offset + b.header_size
                       + (IF b.kind = "full" THEN 4 ELSE 0)
        IN  /\ is_some(b.reader) =>
                /\ rd.off = payload
                /\ rd.len = (IF b.size = 0 THEN saturating_sub(hi, payload)
                             ELSE saturating_sub(b.size, payload - b.offset))
                /\ U64Le(rd.avail, rd.len)
                /\ \A j \in 1..Len(bs) \ {i} :
                     ~TouchesBox(rd.off, rd.avail, bs[j], hi)
            /\ is_some(b.children) =>
                 ReadersInPayload(unwrap(b.children), box_end)

\* C18: the reader handed to a decoder yields only bytes of the payload of
\* the decoded box: it starts at the payload offset and is limited to the
\* payload length, so no decoder reads a byte of a sibling box, for every
\* box kind and every declared size.
C18_ReaderStaysInPayload ==
    (result = "ok" /\ decode) => ReadersInPayload(json_boxes, flen)

\* C19: a malformed box deep in the tree (a nested invalid size or a
\* truncated header) does not discard the rest: the boxes parsed before it
\* are still returned to the caller of get_boxes.
C19_ParsedBoxesSurviveNestedError ==
    [][(/\ result = "running"
        /\ result' \in {"io", "invalid"}
        /\ Len(stack) >= 2
        /\ stack[1].kids # <<>>)
       => (/\ Len(tree') >= Len(stack[1].kids)
           /\ SubSeq(tree', 1, Len(stack[1].kids)) = stack[1].kids)]_vars

\* The accessor's payload range of every non-container box of a list is the
\* one the tree builder recorded for its node; so for the children.
RECURSIVE RangesAsRecorded(_, _, _)
RangesAsRecorded(bs, nodes, hi) ==
    /\ Len(bs) = Len(nodes)
    /\ \A i \in 1..Len(bs) :
         LET b == bs[i]
             n == nodes[i]
             box_end == IF b.size = 0 THEN hi ELSE b.offset + b.size
         IN  IF n.kind = "Container"
               THEN RangesAsRecorded(unwrap(b.children), n.kids, box_end)
               ELSE /\ b.payload_offset = Some(n.data_offset)
                    /\ b.payload_size = Some(n.data_len)
                    /\ n.kind \in {"Leaf", "Unknown"} =>
                         /\ b.payload_offset = Some(b.offset + b.header_size)
                         /\ b.payload_size =
                              Some(saturating_sub(box_end,
                                                  b.offset + b.header_size))

\* C20: for every non-container box the accessor reports a payload range,
\* the one the tree builder recorded: for a leaf or unknown box
\* payload_offset = offset + header_size and payload_size = box end -
\* payload_offset, for a full box the range after version and flags; also
\* for a box of size 0 and for an empty payload.
C20_PayloadRangeAsRecorded ==
    result = "ok" => RangesAsRecorded(json_boxes, tree, flen)

\* The boxes of a list without their decoded values, and so their children.
RECURSIVE Undecoded(_)
Undecoded(bs) ==
    [i \in 1..Len(bs) |->
        [bs[i] EXCEPT !.decoded = None, !.structured_data = None,
                      !.reader = None,
                      !.children = IF is_some(bs[i].children)
                                     THEN Some(Undecoded(unwrap(bs[i].children)))
                                     ELSE None]]

\* What get_boxes returns for the same file with the other decode flag.
OtherFlagBoxes ==
    build_boxes(tree, flen, ~decode, default_registry, lead, last.start).boxes

DataLens == {0, 20, 32, 64}
HexOffsets == {0, 16, 24, 32, 40, 64, -1}
HexMaxLens == {0, 8, 16, 32, 256, -1}

HexInit ==
    /\ overflow_checks \in BOOLEAN
    /\ dump = NoCall
    /\ dcall = NoCall
    /\ reg = default_registry
    /\ latest = reg
    /\ rlast = NoCall
    /\ flen = 0
    /\ pos = 0
    /\ stack = <<>>
    /\ result = "idle"
    /\ tree = <<>>
    /\ nread = 0
    /\ words = NoWords
    /\ decode = FALSE
    /\ lead = 0
    /\ json_boxes = <<>>
    /\ last = NoStep
    /\ trak = NoTrak
    /\ out = NoOut
    /\ rest = <<>>
    /\ tracks = <<>>
    /\ ret = "idle"

\* api.rs hex_range, called with the length of the data or with a size 8
\* bytes beyond it
hex_range_call ==
    \E data_len \in DataLens, offset \in HexOffsets, max_len \in HexMaxLens :
      \E size \in {data_len, data_len + 8} :
        /\ dump' = [op |-> "hex_range", data_len |-> data_len, size |-> size,
                    offset |-> offset, max_len |-> max_len,
                    ret |-> hex_range(data_len, size, offset, max_len)]
        /\ UNCHANGED <<dcall, overflow_checks, walkVars, sampleVars, regVars>>

HexNext == hex_range_call

SpecHex == HexInit /\ [][HexNext]_vars

\* C23: hex_range never reads past the end of the data: the returned length
\* is min(max_len, size - offset), it is 0 with an empty dump when offset >=
\* size, the returned offset is the requested one, and the call succeeds
\* whenever size is the length of the data.
C23_HexRangeWithinData ==
    dump.op = "hex_range" =>
        /\ dump.size = dump.data_len => dump.ret.status = "ok"
        /\ dump.ret.status = "ok" =>
             /\ dump.ret.length =
                  U64Min(dump.max_len, saturating_sub(dump.size, dump.offset))
             /\ dump.ret.offset = dump.offset
             /\ U64Le(dump.size, dump.offset) =>
                  dump.ret.length = 0 /\ dump.ret.hex = <<>>
             /\ dump.ret.nread = dump.ret.length
             /\ dump.ret.nread > 0 =>
                  dump.offset + dump.ret.nread <= dump.data_len

\* 32 bytes of data, offset 24, max_len 32: 8 bytes are returned
C23_Witness ==
    /\ dump.op = "hex_range"
    /\ dump.data_len = 32 /\ dump.size = 32
    /\ dump.offset = 24 /\ dump.max_len = 32
    /\ dump.ret.status = "ok"
    /\ dump.ret.length = 8
    /\ dump.ret.hex = <<[offs |-> 24, n |-> 8]>>

\* ------------------------------------------------ calls of the decoders

\* The payloads handed to a decoder: up to MaxWords words of WordSet (0, 1,
\* 2, 512, "isom", 0xFFFFFF00), and a first word (none, 0, or version 1 with
\* flags 0) followed by up to MaxPad zero words and up to 3 zero bytes.
MaxWords == 4
MaxPad == 24
WordSet ==
    {<<0, 0, 0, 0>>, <<0, 0, 0, 1>>, <<0, 0, 0, 2>>, <<0, 0, 2, 0>>,
     <<105, 115, 111, 109>>, <<255, 255, 255, 0>>}
bytes_of(ws) ==
    [i \in 1..(4 * Len(ws)) |-> ws[((i - 1) \div 4) + 1][((i - 1) % 4) + 1]]
zeros(n) == [i \in 1..n |-> 0]
PayloadSet ==
    {bytes_of(ws) : ws \in UNION {[1..n -> WordSet] : n \in 0..MaxWords}}
    \cup {first \o zeros(4 * pad + tail) :
            first \in {<<>>, <<0, 0, 0, 0>>, <<1, 0, 0, 0>>},
            pad \in 0..MaxPad, tail \in 0..3}

\* The version and flags a caller passes to Registry::decode
VersionFlagsSet == {<<None, None>>, <<Some(0), Some(0)>>, <<Some(1), Some(5)>>}

DecodersInit ==
    /\ overflow_checks \in BOOLEAN
    /\ dcall \in [op : {"pending"}, dec : BuiltinDecoders, buf : PayloadSet,
                  vf : VersionFlagsSet]
    /\ dump = NoCall
    /\ reg = default_registry
    /\ latest = reg
    /\ rlast = NoCall
    /\ flen = 0
    /\ pos = 0
    /\ stack = <<>>
    /\ result = "idle"
    /\ tree = <<>>
    /\ nread = 0
    /\ words = NoWords
    /\ decode = FALSE
    /\ lead = 0
    /\ json_boxes = <<>>
    /\ last = NoStep
    /\ trak = NoTrak
    /\ out = NoOut
    /\ rest = <<>>
    /\ tracks = <<>>
    /\ ret = "idle"

\* registry.rs Registry::decode on the default registry with the payload
\* and the caller's version and flags, and what api.rs decode_value makes of
\* the result
decoder_call ==
    /\ dcall.op = "pending"
    /\ LET res == BoxDecoder_decode(dcall.dec, dcall.buf, dcall.vf[1],
                                    dcall.vf[2])
       IN  dcall' = [op |-> "decode", dec |-> dcall.dec, buf |-> dcall.buf,
                     version |-> dcall.vf[1], flags |-> dcall.vf[2],
                     res |-> res, value |-> decoded_of(Some(res))]
    /\ UNCHANGED <<dump, overflow_checks, walkVars, sampleVars, regVars>>

DecodersNext == decoder_call

SpecDecoders == DecodersInit /\ [][DecodersNext]_vars

\* The big-endian 32-bit value of the 4 bytes of buf at the 0-based offset
\* at, as a signed number (the unsigned value less 2^32 from 2^31 on).
BigEndian32(buf, at) ==
    (IF buf[at + 1] >= 128 THEN buf[at + 1] - 256 ELSE buf[at + 1]) * 16777216
        + buf[at + 2] * 65536 + buf[at + 3] * 256 + buf[at + 4]
BigEndian64(buf, at) ==
    [hi |-> BigEndian32(buf, at), lo |-> BigEndian32(buf, at + 4)]

\* The sample-table decoders, the bytes of one entry, the offset of the
\* first entry, the entry at an offset and the entries of a decoded table.
TableDecoders == {"stts", "ctts", "stsc", "stsz", "stss", "stco", "co64"}
EntryWidth(typ) ==
    CASE typ \in {"stts", "ctts", "co64"} -> 8
      [] typ = "stsc" -> 12
      [] OTHER -> 4
FirstEntryAt(typ) == IF typ = "stsz" THEN 8 ELSE 4
DeclaredCount(typ, buf) ==
    CASE typ # "stsz" -> BigEndian32(buf, 0)
      [] BigEndian32(buf, 0) = 0 -> BigEndian32(buf, 4)
      [] OTHER -> 0
HoldsDeclaredEntries(typ, buf) ==
    /\ Len(buf) >= FirstEntryAt(typ)
    /\ DeclaredCount(typ, buf) >= 0
    /\ DeclaredCount(typ, buf) <= Len(buf)
    /\ FirstEntryAt(typ) + DeclaredCount(typ, buf) * EntryWidth(typ) <= Len(buf)
EntryAt(typ, buf, at) ==
    CASE typ = "stts" -> [sample_count |-> BigEndian32(buf, at),
                          sample_delta |-> BigEndian32(buf, at + 4)]
      [] typ = "ctts" -> [sample_count |-> BigEndian32(buf, at),
                          sample_offset |-> BigEndian32(buf, at + 4)]
      [] typ = "stsc" -> [first_chunk |-> BigEndian32(buf, at),
                          samples_per_chunk |-> BigEndian32(buf, at + 4),
                          sample_description_index |-> BigEndian32(buf, at + 8)]
      [] typ = "co64" -> BigEndian64(buf, at)
      [] OTHER -> BigEndian32(buf, at)
EntriesOf(typ, data) ==
    CASE typ \in {"stts", "ctts", "stsc"} -> data.entries
      [] typ = "stss" -> data.sample_numbers
      [] typ = "stsz" -> data.sample_sizes
      [] OTHER -> data.chunk_offsets
VariantOf(typ) ==
    CASE typ = "stts" -> "DecodingTimeToSample"
      [] typ = "ctts" -> "CompositionTimeToSample"
      [] typ = "stsc" -> "SampleToChunk"
      [] typ = "stsz" -> "SampleSize"
      [] typ = "stss" -> "SyncSample"
      [] typ = "stco" -> "ChunkOffset"
      [] OTHER -> "ChunkOffset64"
Passed(o) == IF o = None THEN 0 ELSE o[1]

LayoutV1 == Passed(dcall.version) = 1

\* C27: handed the payload that starts after version and flags, a decoder
\* of a versioned box reads its box-specific fields from the first payload
\* byte on: mvhd has creation and modification time first and then the
\* timescale and duration it reports, tkhd the track id after the two
\* times, sidx the timescale after the reference id, elst and the
\* sample-table decoders their count field first, mdhd the creation time
\* and hdlr the handler type after pre_defined.
C27_NoVersionFlagsReparse ==
    dcall.op = "decode" =>
        LET buf == dcall.buf
            res == dcall.res
        IN
        /\ (dcall.dec = "mvhd" /\ ~LayoutV1 /\ Len(buf) >= 16) =>
              /\ res.ok
              /\ res.text.args.timescale = BigEndian32(buf, 8)
              /\ res.text.args.duration = [hi |-> 0, lo |-> BigEndian32(buf, 12)]
        /\ (dcall.dec = "mvhd" /\ LayoutV1 /\ Len(buf) >= 28) =>
              /\ res.ok
              /\ res.text.args.timescale = BigEndian32(buf, 16)
              /\ res.text.args.duration = BigEndian64(buf, 20)
        /\ (dcall.dec = "tkhd" /\ ~LayoutV1 /\ Len(buf) >= 20) =>
              /\ res.ok
              /\ res.text.fmt # "tkhd: truncated creation/modification"
              /\ res.text.args.track_id = BigEndian32(buf, 8)
        /\ (dcall.dec = "tkhd" /\ LayoutV1 /\ Len(buf) >= 32) =>
              /\ res.ok
              /\ res.text.fmt # "tkhd: truncated creation/modification"
              /\ res.text.args.track_id = BigEndian32(buf, 16)
        /\ (dcall.dec = "sidx" /\ Len(buf) >= (IF LayoutV1 THEN 28 ELSE 20)) =>
              /\ res.ok
              /\ res.text.args.timescale = BigEndian32(buf, 4)
        /\ (dcall.dec = "elst" /\ Len(buf) >= 4) =>
              /\ res.ok
              /\ IF BigEndian32(buf, 0) = 0
                   THEN res.text.fmt = "version={} entries=0"
                   ELSE /\ res.text.fmt # "elst: payload too short ({} bytes)"
                        /\ res.text.fmt # "version={} entries=0"
                        /\ res.text.args.entry_count = BigEndian32(buf, 0)
        /\ (dcall.dec = "mdhd" /\ Len(buf) >= 20) =>
              /\ res.ok
              /\ res.text.data.creation_time = BigEndian32(buf, 0)
        /\ (dcall.dec = "hdlr" /\ Len(buf) >= 20) =>
              /\ res.ok
              /\ \A i \in 1..4 :
                   buf[4 + i] < 128 => res.text.data.handler_type[i] = buf[4 + i]
        /\ (dcall.dec \in TableDecoders /\ dcall.dec # "stsz" /\ res.ok) =>
              res.text.data.entry_count = BigEndian32(buf, 0)
        /\ (dcall.dec = "stsz" /\ res.ok) =>
              res.text.data.sample_size = BigEndian32(buf, 0)

\* The decoders with a count field that the rest of the payload depends on,
\* and the bytes up to the end of that field.
CountFieldEnd(typ) ==
    CASE typ = "stsz" -> 8
      [] typ \in TableDecoders \cup {"stsd"} -> 4
      [] OTHER -> 0

\* C28: a built-in decoder returns a value and not an error on a payload of
\* any length; it fails only when its count field cannot be read.
C28_GracefulOnTruncation ==
    dcall.op = "decode" =>
        (~dcall.res.ok => Len(dcall.buf) < CountFieldEnd(dcall.dec))

====
